---- MODULE Spec2Model ----
(***************************************************************************)
(* hdrcopier: reconciliation of three metadata probes (mkvinfo, mediainfo, *)
(* ffprobe) into one Metadata record, and its serialization.               *)
(*                                                                         *)
(* Source A = parse_mkvinfo, source B = parse_mediainfo, source C =        *)
(* parse_ffprobe.  Metadata::parse is modelled as one action per probe     *)
(* invocation, each including the stop test that follows it in the code.   *)
(*                                                                         *)
(* Specifications:                                                         *)
(*   Spec      Metadata::parse over every outcome the parsers can have;    *)
(*   SpecText  Metadata::parse over the texts the probes print;            *)
(*   SpecFn    each parser applied on its own to one input;                *)
(*   SpecOut   Metadata::apply and the mkvmerge dry-run print of a record. *)
(***************************************************************************)
EXTENDS Integers, Sequences, FiniteSets, TLC

VARIABLES
    pc,       \* position in the operation: "start", "invokeB", "invokeC", "done", "failed", "aborted"
    aText,    \* what mkvinfo printed (NoText: not run, or its text is not modelled)
    bText,    \* what mediainfo printed
    cText,    \* what ffprobe printed
    aOut,     \* what parse_mkvinfo returned (NoResult: not invoked)
    bOut,     \* what parse_mediainfo returned
    cOut,     \* what parse_ffprobe returned
    data,     \* Metadata::parse's working record `data`
    calls,    \* the probes invoked so far, in order
    result,   \* what Metadata::parse returned: NoResult, Ok(record) or Err
    arg,      \* the function applied on its own, and its input (NoCall: none)
    ret,      \* what that function returned (NoResult: not applied yet)
    spawned,  \* the command lines of the processes spawned with the record
    stdout,   \* the lines printed to standard output
    printed,  \* the format print was called with, once it was called
    stderr,   \* the lines printed to the diagnostic stream
    exit      \* how the process ended: Running, or Exited(code)

texts == <<aText, bText, cText>>
outs == <<aOut, bOut, cOut>>
parse_vars == <<pc, aText, bText, cText, aOut, bOut, cOut, data, calls, result>>
fn_vars == <<arg, ret>>
out_vars == <<spawned, stdout, printed>>
proc_vars == <<stderr, exit>>
vars == <<pc, aText, bText, cText, aOut, bOut, cOut, data, calls, result,
          arg, ret, spawned, stdout, printed, stderr, exit>>

(***************************************************************************)
(* Bounds of the model.                                                    *)
(***************************************************************************)
MaxLight == 1
MaxToken == 1

(***************************************************************************)
(* Rationals in lowest terms stand for the f64 values the program holds.   *)
(***************************************************************************)
RECURSIVE GCD(_, _)
GCD(a, b) == IF b = 0 THEN a ELSE GCD(b, a % b)

Rat(n, d) == LET g == GCD(n, d) IN <<n \div g, d \div g>>

RatZero == <<0, 1>>

(***************************************************************************)
(* The data model.                                                          *)
(***************************************************************************)
\* Option<T>
None == [some |-> FALSE]
Some(v) == [some |-> TRUE, val |-> v]
is_some(o) == o.some
is_none(o) == ~o.some

ChromaLocation == {"Left", "Center", "TopLeft", "Top", "BottomLeft", "Bottom"}

BasicMetadata_default ==
    [matrix |-> 2, transfer |-> 2, primaries |-> 2, range |-> 1,
     chroma_location |-> "Left"]

ColorCoordinates_default ==
    [red |-> <<RatZero, RatZero>>, green |-> <<RatZero, RatZero>>,
     blue |-> <<RatZero, RatZero>>, white |-> <<RatZero, RatZero>>]

HdrMetadata_default ==
    [color_coords |-> None, max_luma |-> 0, min_luma |-> RatZero,
     max_content_light |-> 0, max_frame_light |-> 0]

Metadata_default == [basic |-> None, hdr |-> None]

(***************************************************************************)
(* Outcomes of a fallible call: Ok(v), Err, or the process aborting in it. *)
(***************************************************************************)
Ok(v) == [kind |-> "Ok", val |-> v]
Err == [kind |-> "Err"]
Panic == [kind |-> "Panic"]

\* The process: still running, ended by exit(code), or ended by a panic, which
\* writes its message to the diagnostic stream and gives a nonzero status.
Running == [kind |-> "Running"]
Exited(code) == [kind |-> "Exited", code |-> code]
Panicked == [kind |-> "Panicked"]
PanicWith(msg) == [kind |-> "Panic", msg |-> msg]

\* print(format) was not called yet, or was called with that format
NotPrinted == [kind |-> "none"]
Printed(format) == [kind |-> "printed", format |-> format]
NoResult == [kind |-> "NoResult"]
NoCall == [fn |-> "none"]

\* What a probe tool gave: it could not be run, or the lines of its standard
\* output.  NoText: the probe was not run, or its text is not part of the state.
NoText == [kind |-> "none"]
Unavailable == [kind |-> "unavailable"]
Stdout(lines) == [kind |-> "stdout", lines |-> lines]

(***************************************************************************)
(* Strings, as the parsers use them.  Positions are 1-based.               *)
(***************************************************************************)
char_at(s, i) == SubSeq(s, i, i)

\* str::contains
contains(s, pat) ==
    \E i \in 1 .. (Len(s) - Len(pat) + 1) : SubSeq(s, i, i + Len(pat) - 1) = pat

\* str::find: the position of the first match, 0 when there is none
find(s, pat) ==
    IF contains(s, pat)
    THEN CHOOSE i \in 1 .. (Len(s) - Len(pat) + 1) :
            /\ SubSeq(s, i, i + Len(pat) - 1) = pat
            /\ \A j \in 1 .. (i - 1) : SubSeq(s, j, j + Len(pat) - 1) # pat
    ELSE 0

\* str::split_once: the text before and after the first match
split_once(s, pat) ==
    LET i == find(s, pat) IN
    IF i = 0 THEN None
    ELSE Some(<<SubSeq(s, 1, i - 1), SubSeq(s, i + Len(pat), Len(s))>>)

starts_with(s, pat) == Len(s) >= Len(pat) /\ SubSeq(s, 1, Len(pat)) = pat

ends_with(s, pat) ==
    Len(s) >= Len(pat) /\ SubSeq(s, Len(s) - Len(pat) + 1, Len(s)) = pat

RECURSIVE trim_end_matches(_, _)
trim_end_matches(s, pat) ==
    IF ends_with(s, pat)
    THEN trim_end_matches(SubSeq(s, 1, Len(s) - Len(pat)), pat)
    ELSE s

RECURSIVE trim_start_matches(_, _)
trim_start_matches(s, pat) ==
    IF starts_with(s, pat)
    THEN trim_start_matches(SubSeq(s, Len(pat) + 1, Len(s)), pat)
    ELSE s

UpperCase == "ABCDEFGHIJKLMNOPQRSTUVWXYZ"
LowerCase == "abcdefghijklmnopqrstuvwxyz"

char_to_lowercase(c) ==
    LET i == find(UpperCase, c) IN IF i = 0 THEN c ELSE char_at(LowerCase, i)

\* str::to_lowercase
RECURSIVE to_lowercase(_)
to_lowercase(s) ==
    IF s = "" THEN ""
    ELSE char_to_lowercase(char_at(s, 1)) \o to_lowercase(SubSeq(s, 2, Len(s)))

Digits == "0123456789"

is_digit(c) == Len(c) = 1 /\ contains(Digits, c)

digit_value(c) == find(Digits, c) - 1

all_digits(s) == \A i \in 1 .. Len(s) : is_digit(char_at(s, i))

RECURSIVE digits_value(_)
digits_value(s) ==
    IF s = "" THEN 0
    ELSE digits_value(SubSeq(s, 1, Len(s) - 1)) * 10 + digit_value(char_at(s, Len(s)))

\* s <= t for digit strings of the same length
RECURSIVE digits_le(_, _)
digits_le(s, t) ==
    IF s = "" THEN TRUE
    ELSE LET a == digit_value(char_at(s, 1))
             b == digit_value(char_at(t, 1))
         IN  a < b \/ (a = b /\ digits_le(SubSeq(s, 2, Len(s)), SubSeq(t, 2, Len(t))))

\* whether the number written by the digits s is at most the one written by max
fits(s, max) ==
    LET sig == trim_start_matches(s, "0") IN
    \/ Len(sig) < Len(max)
    \/ Len(sig) = Len(max) /\ digits_le(sig, max)

U8_MAX == "255"
U32_MAX == "4294967295"

\* <u8 as FromStr>::from_str and <u32 as FromStr>::from_str: an optional '+',
\* then one or more digits, no more than the type's maximum
parse_unsigned(s, max) ==
    LET body == IF starts_with(s, "+") /\ Len(s) > 1 THEN SubSeq(s, 2, Len(s)) ELSE s
    IN  IF body # "" /\ all_digits(body) /\ fits(body, max)
        THEN Ok(digits_value(body))
        ELSE Err

parse_u8(s) == parse_unsigned(s, U8_MAX)
parse_u32(s) == parse_unsigned(s, U32_MAX)

RECURSIVE pow10(_)
pow10(k) == IF k = 0 THEN 1 ELSE 10 * pow10(k - 1)

RatInf == <<1, 0>>
RatNaN == <<0, 0>>

rat_neg(r) == <<0 - r[1], r[2]>>

\* f64 division
rat_div(a, b) ==
    CASE a = RatNaN \/ b = RatNaN -> RatNaN
      [] b[1] = 0 /\ b[2] # 0 ->
            IF a[1] = 0 THEN RatNaN ELSE IF a[1] > 0 THEN RatInf ELSE rat_neg(RatInf)
      [] OTHER ->
            LET n == a[1] * b[2]
                d == a[2] * b[1]
            IN  IF n < 0 THEN rat_neg(Rat(0 - n, d)) ELSE Rat(n, d)

\* the decimal part of <f64 as FromStr>::from_str: digits with an optional '.',
\* at least one digit in all
parse_decimal(s) ==
    LET dot == find(s, ".")
        int == IF dot = 0 THEN s ELSE SubSeq(s, 1, dot - 1)
        frac == IF dot = 0 THEN "" ELSE SubSeq(s, dot + 1, Len(s))
    IN  IF all_digits(int) /\ all_digits(frac) /\ Len(int) + Len(frac) > 0
        THEN Ok(Rat(digits_value(int) * pow10(Len(frac)) + digits_value(frac),
                    pow10(Len(frac))))
        ELSE Err

\* <f64 as FromStr>::from_str: an optional sign, then "inf", "infinity", "nan"
\* (in any case) or a decimal number.  Exponents are not in the texts drawn.
parse_f64(s) ==
    LET neg == starts_with(s, "-")
        body == IF starts_with(s, "+") \/ neg THEN SubSeq(s, 2, Len(s)) ELSE s
        low == to_lowercase(body)
        mag == CASE low \in {"inf", "infinity"} -> Ok(RatInf)
                 [] low = "nan" -> Ok(RatNaN)
                 [] OTHER -> parse_decimal(body)
    IN  IF mag.kind = "Ok" /\ neg THEN Ok(rat_neg(mag.val)) ELSE mag

(***************************************************************************)
(* Value dictionaries: the name -> code direction, used by parse_mediainfo. *)
(* An unrecognized name panics.                                             *)
(***************************************************************************)
parse_color_range(value) ==
    LET v == to_lowercase(value) IN
    CASE v = "limited" -> Ok(1)
      [] v = "full" -> Ok(0)
      [] OTHER -> Panic

parse_matrix_coefficients(value) ==
    LET v == to_lowercase(value) IN
    CASE v = "rgb" -> Ok(0)
      [] v = "bt.709" -> Ok(1)
      [] v \in {"unspecified", "unset"} -> Ok(2)
      [] v = "fcc" -> Ok(4)
      [] v = "bt.470 bg" -> Ok(5)
      [] v \in {"smpte 170m", "bt.601"} -> Ok(6)
      [] v = "smpte 240m" -> Ok(7)
      [] v = "ycgco" -> Ok(8)
      [] v = "bt.2020 non-constant" -> Ok(9)
      [] v = "bt.2020 constant" -> Ok(10)
      [] OTHER -> Panic

parse_transfer_characteristics(value) ==
    LET v == to_lowercase(value) IN
    CASE v = "bt.709" -> Ok(1)
      [] v \in {"unspecified", "unset"} -> Ok(2)
      [] v = "bt.470 m" -> Ok(4)
      [] v = "bt.470 bg" -> Ok(5)
      [] v = "bt.601" -> Ok(6)
      [] v = "smpte 240m" -> Ok(7)
      [] v = "linear" -> Ok(8)
      [] v = "log 100" -> Ok(9)
      [] v = "log 316" -> Ok(10)
      [] v = "iec 61966-2-4" -> Ok(11)
      [] v = "iec 61966-2-1" -> Ok(13)
      [] v = "bt.2020 10-bit" -> Ok(14)
      [] v = "bt.2020 12-bit" -> Ok(15)
      [] v \in {"pq", "smpte 2084"} -> Ok(16)
      [] v = "arib b67" -> Ok(18)
      [] OTHER -> Panic

parse_color_primaries(value) ==
    LET v == to_lowercase(value) IN
    CASE v = "bt.709" -> Ok(1)
      [] v \in {"unspecified", "unset"} -> Ok(2)
      [] v = "bt.470 m" -> Ok(4)
      [] v = "bt.470 bg" -> Ok(5)
      [] v \in {"smpte 170m", "bt.601"} -> Ok(6)
      [] v = "smpte 240m" -> Ok(7)
      [] v \in {"film", "ntsc"} -> Ok(8)
      [] v = "bt.2020" -> Ok(9)
      [] v = "smpte 428" -> Ok(10)
      [] v = "smpte 431.2" -> Ok(11)
      [] v = "smpte 432.1" -> Ok(12)
      [] v = "ebu 3213 e" -> Ok(22)
      [] OTHER -> Panic

(***************************************************************************)
(* The source parsers.  A probe is Unavailable (the tool could not be run)  *)
(* or Stdout(lines).  A parser returns                                      *)
(* Ok(record), Err (a `?` took the error out) or Panic (an unwrap, a       *)
(* panic! or a division aborted the process).  In these parsers basic and  *)
(* color_coords are plain values, not options.                             *)
(***************************************************************************)
\* HdrMetadata::default() as the parsers fill it
parse_hdr_default ==
    [color_coords |-> ColorCoordinates_default, max_luma |-> 0,
     min_luma |-> RatZero, max_content_light |-> 0, max_frame_light |-> 0]

\* `let mut basic`, `let mut hdr`, `let mut has_hdr`
parse_locals == [basic |-> BasicMetadata_default, hdr |-> parse_hdr_default,
                 has_hdr |-> FALSE]

\* the assignment to the field a matched line names
set_field(acc, field, v) ==
    CASE field = "matrix" -> [acc EXCEPT !.basic.matrix = v]
      [] field = "range" -> [acc EXCEPT !.basic.range = v]
      [] field = "transfer" -> [acc EXCEPT !.basic.transfer = v]
      [] field = "primaries" -> [acc EXCEPT !.basic.primaries = v]
      [] field = "has_hdr" -> [acc EXCEPT !.has_hdr = TRUE]
      [] field = "max_content_light" -> [acc EXCEPT !.hdr.max_content_light = v]
      [] field = "max_frame_light" -> [acc EXCEPT !.hdr.max_frame_light = v]
      [] field = "red.0" -> [acc EXCEPT !.hdr.color_coords.red[1] = v]
      [] field = "red.1" -> [acc EXCEPT !.hdr.color_coords.red[2] = v]
      [] field = "green.0" -> [acc EXCEPT !.hdr.color_coords.green[1] = v]
      [] field = "green.1" -> [acc EXCEPT !.hdr.color_coords.green[2] = v]
      [] field = "blue.0" -> [acc EXCEPT !.hdr.color_coords.blue[1] = v]
      [] field = "blue.1" -> [acc EXCEPT !.hdr.color_coords.blue[2] = v]
      [] field = "white.0" -> [acc EXCEPT !.hdr.color_coords.white[1] = v]
      [] field = "white.1" -> [acc EXCEPT !.hdr.color_coords.white[2] = v]
      [] field = "max_luma" -> [acc EXCEPT !.hdr.max_luma = v]
      [] field = "min_luma" -> [acc EXCEPT !.hdr.min_luma = v]
      [] field = "color_coords" -> [acc EXCEPT !.hdr.color_coords = v]

\* the test a parser applies to a line: line.contains(label) or
\* line.starts_with(label)
matches(line, label, test) ==
    IF test = "starts_with" THEN starts_with(line, label) ELSE contains(line, label)

\* the first entry of a label table whose label the line matches, 0 if none
first_match(line, table, test) ==
    IF \E i \in 1 .. Len(table) : matches(line, table[i][1], test)
    THEN CHOOSE i \in 1 .. Len(table) :
            /\ matches(line, table[i][1], test)
            /\ \A j \in 1 .. (i - 1) : ~matches(line, table[j][1], test)
    ELSE 0

\* mutant: the HDR block is reported whether or not its header was seen
parse_finish_hdr_always(acc) == [basic |-> acc.basic, hdr |-> Some(acc.hdr)]

\* mutant: the HDR block is inferred from the numbers that were read
parse_finish_by_numbers(acc) ==
    [basic |-> acc.basic,
     hdr |-> IF acc.hdr # parse_hdr_default THEN Some(acc.hdr) ELSE None]

\* Metadata { basic, hdr: if has_hdr { Some(hdr) } else { None } }
parse_finish(acc) ==
    [basic |-> acc.basic, hdr |-> IF acc.has_hdr THEN Some(acc.hdr) ELSE None]

\* the labels of parse_mkvinfo, in the order the code tests them
MkvinfoLabels ==
    << <<"Colour matrix coefficients:", "matrix", "u8">>,
       <<"Colour range:", "range", "u8">>,
       <<"Colour transfer:", "transfer", "u8">>,
       <<"Colour primaries:", "primaries", "u8">>,
       <<"Video colour mastering metadata", "has_hdr", "header">>,
       <<"Maximum content light:", "max_content_light", "u32">>,
       <<"Maximum frame light:", "max_frame_light", "u32">>,
       <<"Red colour coordinate x:", "red.0", "f64">>,
       <<"Red colour coordinate y:", "red.1", "f64">>,
       <<"Green colour coordinate x:", "green.0", "f64">>,
       <<"Green colour coordinate y:", "green.1", "f64">>,
       <<"Blue colour coordinate x:", "blue.0", "f64">>,
       <<"Blue colour coordinate y:", "blue.1", "f64">>,
       <<"White colour coordinate x:", "white.0", "f64">>,
       <<"White colour coordinate y:", "white.1", "f64">>,
       <<"Maximum luminance:", "max_luma", "u32">>,
       <<"Minimum luminance:", "min_luma", "f64">> >>

\* str::parse::<T>()
parse_as(type, s) ==
    CASE type = "u8" -> parse_u8(s)
      [] type = "u32" -> parse_u32(s)
      [] type = "f64" -> parse_f64(s)

\* one iteration of parse_mkvinfo's loop
parse_mkvinfo_line(acc, line) ==
    LET i == first_match(line, MkvinfoLabels, "contains") IN
    IF i = 0 THEN Ok(acc)
    ELSE IF MkvinfoLabels[i][3] = "header" THEN Ok(set_field(acc, "has_hdr", TRUE))
    ELSE LET sp == split_once(line, ": ") IN
         IF is_none(sp) THEN Panic
         ELSE LET v == parse_as(MkvinfoLabels[i][3], sp.val[2]) IN
              IF v.kind = "Ok" THEN Ok(set_field(acc, MkvinfoLabels[i][2], v.val))
              ELSE Err

RECURSIVE parse_mkvinfo_lines(_, _, _)
parse_mkvinfo_lines(acc, lines, i) ==
    IF i > Len(lines) THEN Ok(acc)
    ELSE LET r == parse_mkvinfo_line(acc, lines[i]) IN
         IF r.kind = "Ok" THEN parse_mkvinfo_lines(r.val, lines, i + 1) ELSE r

parse_mkvinfo(probe) ==
    IF probe.kind # "stdout" THEN Err
    ELSE LET r == parse_mkvinfo_lines(parse_locals, probe.lines, 1) IN
         IF r.kind = "Ok" THEN Ok(parse_finish(r.val)) ELSE r

\* the number of leading digits of s
RECURSIVE count_digits(_)
count_digits(s) ==
    IF s # "" /\ is_digit(char_at(s, 1))
    THEN 1 + count_digits(SubSeq(s, 2, Len(s)))
    ELSE 0

\* get_coordinate_pair: '(' digit1 ',' digit1 ')' and the two numbers as u32;
\* Ok(<<rest, <<x, y>>>>), Err when the text does not match, Panic when a
\* number does not fit a u32
get_coordinate_pair(input) ==
    IF ~starts_with(input, "(") THEN Err
    ELSE LET s1 == SubSeq(input, 2, Len(input))
             n1 == count_digits(s1)
             s2 == SubSeq(s1, n1 + 1, Len(s1))
             s3 == SubSeq(s2, 2, Len(s2))
             n2 == count_digits(s3)
             s4 == SubSeq(s3, n2 + 1, Len(s3))
         IN  IF n1 = 0 \/ ~starts_with(s2, ",") \/ n2 = 0 \/ ~starts_with(s4, ")")
             THEN Err
             ELSE LET x == parse_u32(SubSeq(s1, 1, n1))
                      y == parse_u32(SubSeq(s3, 1, n2))
                  IN  IF x.kind = "Ok" /\ y.kind = "Ok"
                      THEN Ok(<<SubSeq(s4, 2, Len(s4)), <<x.val, y.val>>>>)
                      ELSE Panic

\* preceded(tag(t), get_coordinate_pair)(input).unwrap()
tagged_pair(t, input) ==
    IF ~starts_with(input, t) THEN Panic
    ELSE LET r == get_coordinate_pair(SubSeq(input, Len(t) + 1, Len(input))) IN
         IF r.kind = "Err" THEN Panic ELSE r

MASTER_DISPLAY_HEADER == "master-display="

\* the scale of the coordinates in a master-display string
CoordScale == 50000

scaled(pair) == <<Rat(pair[1], CoordScale), Rat(pair[2], CoordScale)>>

parse_x265_settings(input) ==
    LET header_pos == find(input, MASTER_DISPLAY_HEADER) IN
    IF header_pos = 0 THEN Err
    ELSE LET g == tagged_pair("G", SubSeq(input, header_pos + Len(MASTER_DISPLAY_HEADER),
                                        Len(input)))
         IN  IF g.kind # "Ok" THEN g
             ELSE LET b == tagged_pair("B", g.val[1]) IN
                  IF b.kind # "Ok" THEN b
                  ELSE LET r == tagged_pair("R", b.val[1]) IN
                       IF r.kind # "Ok" THEN r
                       ELSE LET w == tagged_pair("WP", r.val[1]) IN
                            IF w.kind # "Ok" THEN w
                            ELSE Ok([red |-> scaled(r.val[2]),
                                     green |-> scaled(g.val[2]),
                                     blue |-> scaled(b.val[2]),
                                     white |-> scaled(w.val[2])])

\* the labels of parse_mediainfo that end in `continue`, in the order the code
\* tests them
MediainfoLabels ==
    << <<"Matrix coefficients", "matrix", "name">>,
       <<"Color range", "range", "name">>,
       <<"Transfer characteristics", "transfer", "name">>,
       <<"Color primaries", "primaries", "name">>,
       <<"Mastering display color primaries", "has_hdr", "header">>,
       <<"Maximum Content Light Level", "max_content_light", "cd/m2">>,
       <<"Maximum Frame-Average Light Level", "max_frame_light", "cd/m2">>,
       <<"Mastering display luminance", "luminance", "min-max">> >>

\* the dictionary lookup of a basic field
parse_name(field, value) ==
    CASE field = "matrix" -> parse_matrix_coefficients(value)
      [] field = "range" -> parse_color_range(value)
      [] field = "transfer" -> parse_transfer_characteristics(value)
      [] field = "primaries" -> parse_color_primaries(value)

\* mutant: the "Mastering display luminance" line is matched and not read
parse_mediainfo_luminance_unread(acc, output) == Ok(acc)

\* the "Mastering display luminance" arm
parse_mediainfo_luminance(acc, output) ==
    LET mm == split_once(output, ", ") IN
    IF is_none(mm) THEN Panic
    ELSE LET min == parse_f64(trim_end_matches(
                        trim_start_matches(mm.val[1], "min: "), " cd/m2"))
         IN  IF min.kind # "Ok" THEN Err
             ELSE LET max == parse_u32(trim_end_matches(
                                 trim_start_matches(mm.val[2], "max: "), " cd/m2"))
                  IN  IF max.kind # "Ok"
                      THEN Err
                      ELSE Ok(set_field(set_field(acc, "min_luma", min.val),
                                        "max_luma", max.val))

\* the last test of the loop: an "Encoding settings" line with a master-display
parse_mediainfo_settings(acc, line) ==
    IF contains(line, "Encoding settings") /\ contains(line, "master-display")
    THEN LET sp == split_once(line, ": ") IN
         IF is_none(sp) THEN Panic
         ELSE LET c == parse_x265_settings(sp.val[2]) IN
              IF c.kind = "Ok" THEN Ok(set_field(acc, "color_coords", c.val)) ELSE c
    ELSE Ok(acc)

\* one iteration of parse_mediainfo's loop
parse_mediainfo_line(acc, line) ==
    LET i == first_match(line, MediainfoLabels, "contains") IN
    IF i = 0 THEN parse_mediainfo_settings(acc, line)
    ELSE IF MediainfoLabels[i][3] = "header" THEN Ok(set_field(acc, "has_hdr", TRUE))
    ELSE LET sp == split_once(line, ": ")
             kind == MediainfoLabels[i][3]
             field == MediainfoLabels[i][2]
         IN  IF is_none(sp) THEN Panic
             ELSE CASE kind = "name" ->
                         LET v == parse_name(field, sp.val[2]) IN
                         IF v.kind = "Ok" THEN Ok(set_field(acc, field, v.val)) ELSE v
                    [] kind = "cd/m2" ->
                         LET v == parse_u32(trim_end_matches(sp.val[2], " cd/m2")) IN
                         IF v.kind = "Ok" THEN Ok(set_field(acc, field, v.val)) ELSE Err
                    [] kind = "min-max" -> parse_mediainfo_luminance(acc, sp.val[2])

RECURSIVE parse_mediainfo_lines(_, _, _)
parse_mediainfo_lines(acc, lines, i) ==
    IF i > Len(lines) THEN Ok(acc)
    ELSE LET r == parse_mediainfo_line(acc, lines[i]) IN
         IF r.kind = "Ok" THEN parse_mediainfo_lines(r.val, lines, i + 1) ELSE r

parse_mediainfo(probe) ==
    IF probe.kind # "stdout" THEN Err
    ELSE LET r == parse_mediainfo_lines(parse_locals, probe.lines, 1) IN
         IF r.kind = "Ok" THEN Ok(parse_finish(r.val)) ELSE r

\* the fields of parse_ffprobe, in the order the code tests them
FfprobeLabels ==
    << <<"red_x=", "red.0", "f64/f64">>,
       <<"red_y=", "red.1", "f64/f64">>,
       <<"green_x=", "green.0", "f64/f64">>,
       <<"green_y=", "green.1", "f64/f64">>,
       <<"blue_x=", "blue.0", "f64/f64">>,
       <<"blue_y=", "blue.1", "f64/f64">>,
       <<"white_point_x=", "white.0", "f64/f64">>,
       <<"white_point_y=", "white.1", "f64/f64">>,
       <<"min_luminance=", "min_luma", "f64/f64">>,
       <<"max_luminance=", "max_luma", "u32/u32">>,
       <<"max_content=", "max_content_light", "u32">>,
       <<"max_average=", "max_frame_light", "u32">> >>

\* num.parse()? / denom.parse()?, in f64 or in u32
parse_fraction(kind, value) ==
    LET nd == split_once(value, "/") IN
    IF is_none(nd) THEN Panic
    ELSE IF kind = "f64/f64"
         THEN LET n == parse_f64(nd.val[1]) IN
              IF n.kind # "Ok" THEN Err
              ELSE LET d == parse_f64(nd.val[2]) IN
                   IF d.kind # "Ok" THEN Err ELSE Ok(rat_div(n.val, d.val))
         ELSE LET n == parse_u32(nd.val[1]) IN
              IF n.kind # "Ok" THEN Err
              ELSE LET d == parse_u32(nd.val[2]) IN
                   IF d.kind # "Ok" THEN Err
                   ELSE IF d.val = 0 THEN Panic ELSE Ok(n.val \div d.val)

\* one iteration of parse_ffprobe's loop
parse_ffprobe_line(acc, line) ==
    LET i == first_match(line, FfprobeLabels, "starts_with") IN
    IF i = 0 THEN Ok(acc)
    ELSE LET value == split_once(line, "=").val[2]
             kind == FfprobeLabels[i][3]
             v == IF kind = "u32"
                  THEN parse_u32(value)
                  ELSE parse_fraction(kind, value)
         IN  IF v.kind = "Ok" THEN Ok(set_field(acc, FfprobeLabels[i][2], v.val)) ELSE v

RECURSIVE parse_ffprobe_lines(_, _, _)
parse_ffprobe_lines(acc, lines, i) ==
    IF i > Len(lines) THEN Ok(acc)
    ELSE LET r == parse_ffprobe_line(acc, lines[i]) IN
         IF r.kind = "Ok" THEN parse_ffprobe_lines(r.val, lines, i + 1) ELSE r

\* String::contains on the whole output, for a pattern without a line break
output_contains(lines, pat) == \E i \in 1 .. Len(lines) : contains(lines[i], pat)

\* mutant: one of the two side-data headers is enough
parse_ffprobe_either(probe) ==
    IF probe.kind # "stdout" THEN Err
    ELSE IF ~(\/ output_contains(probe.lines, "side_data_type=Mastering display metadata")
              \/ output_contains(probe.lines,
                                 "side_data_type=Content light level metadata"))
         THEN Ok(None)
         ELSE LET r == parse_ffprobe_lines(parse_locals, probe.lines, 1) IN
              IF r.kind = "Ok" THEN Ok(Some(r.val.hdr)) ELSE r

parse_ffprobe(probe) ==
    IF probe.kind # "stdout" THEN Err
    ELSE IF ~(/\ output_contains(probe.lines, "side_data_type=Mastering display metadata")
              /\ output_contains(probe.lines,
                                 "side_data_type=Content light level metadata"))
         THEN Ok(None)
         ELSE LET r == parse_ffprobe_lines(parse_locals, probe.lines, 1) IN
              IF r.kind = "Ok" THEN Ok(Some(r.val.hdr)) ELSE r

(***************************************************************************)
(* The records the probes can report in the reconciler's specification.    *)
(***************************************************************************)
SampleCoords ==
    [red |-> <<Rat(34000, 50000), Rat(15999, 50000)>>,
     green |-> <<Rat(13250, 50000), Rat(34499, 50000)>>,
     blue |-> <<Rat(7499, 50000), Rat(2999, 50000)>>,
     white |-> <<Rat(15634, 50000), Rat(16450, 50000)>>]

BasicSet ==
    {BasicMetadata_default,
     [matrix |-> 9, transfer |-> 16, primaries |-> 9, range |-> 1,
      chroma_location |-> "Left"]}

HdrSet ==
    [color_coords : {None, Some(SampleCoords)},
     max_luma : {0, 1000},
     min_luma : {Rat(50, 10000)},
     max_content_light : 0 .. MaxLight,
     max_frame_light : {0}]

OptionOf(S) == {None} \cup {Some(v) : v \in S}

MetadataSet == [basic : OptionOf(BasicSet), hdr : OptionOf(HdrSet)]

MetadataOutcomes == {Ok(m) : m \in MetadataSet} \cup {Err, Panic}

FfprobeOutcomes == {Ok(h) : h \in OptionOf(HdrSet)} \cup {Err, Panic}

(***************************************************************************)
(* Metadata::parse                                                          *)
(***************************************************************************)
\* eprintln!("Warning: ..") or eprintln!("Error: ..") for a failed parser, the
\* panic message for one that aborted
parse_stderr(out, label) ==
    IF out.kind = "Panic" THEN Append(stderr, "panicked")
    ELSE IF out.kind = "Err" THEN Append(stderr, label)
    ELSE stderr

\* a parser that panics ends the process
parse_exit(out) == IF out.kind = "Panic" THEN Panicked ELSE exit

\* `data = info` on Ok, a warning on Err
seed_mkvinfo(d, out) == IF out.kind = "Ok" THEN out.val ELSE d

\* mutant: the stop test after source A ignores color_coords and basic
stop_after_mkvinfo_never(d) == FALSE

\* the stop test after source A
stop_after_mkvinfo(d) ==
    /\ is_some(d.basic)
    /\ is_some(d.hdr)
    /\ is_some(d.hdr.val.color_coords)

\* mutant: the basic of source B replaces the one of source A
merge_mediainfo_basic_replaces(d, info) ==
    LET d1 == IF is_some(info.basic) THEN [d EXCEPT !.basic = info.basic] ELSE d
    IN  IF is_some(info.hdr) THEN [d1 EXCEPT !.hdr = info.hdr] ELSE d1

\* mutant: source B never supplies basic
merge_mediainfo_hdr_only(d, info) ==
    IF is_some(info.hdr) THEN [d EXCEPT !.hdr = info.hdr] ELSE d

\* the Ok arm of the match on parse_mediainfo
merge_mediainfo(d, info) ==
    LET d1 == IF is_none(d.basic) /\ is_some(info.basic)
              THEN [d EXCEPT !.basic = info.basic] ELSE d
    IN  IF is_some(info.hdr) THEN [d1 EXCEPT !.hdr = info.hdr] ELSE d1

\* mutant: the stop test after source B is the one after source A
stop_after_mediainfo_as_before(d) == stop_after_mkvinfo(d)

\* the stop test after source B
stop_after_mediainfo(d) ==
    /\ is_some(d.hdr)
    /\ is_some(d.hdr.val.color_coords)

\* mutant: the hdr of source C only fills an absent hdr
merge_ffprobe_fills(d, out) ==
    IF out.kind = "Ok" /\ is_some(out.val) /\ is_none(d.hdr)
    THEN [d EXCEPT !.hdr = out.val] ELSE d

\* mutant: a failing source C drops the working hdr
merge_ffprobe_err_clears(d, out) ==
    IF out.kind = "Ok"
    THEN (IF is_some(out.val) THEN [d EXCEPT !.hdr = out.val] ELSE d)
    ELSE [d EXCEPT !.hdr = None]

\* the match on parse_ffprobe
merge_ffprobe(d, out) ==
    IF out.kind = "Ok" /\ is_some(out.val) THEN [d EXCEPT !.hdr = out.val] ELSE d

Metadata_parse_mkvinfo(text, out) ==
    /\ pc = "start"
    /\ aText' = text
    /\ aOut' = out
    /\ calls' = Append(calls, "A")
    /\ IF out.kind = "Panic"
       THEN /\ pc' = "aborted"
            /\ UNCHANGED <<data, result>>
       ELSE LET d == seed_mkvinfo(data, out) IN
            /\ data' = d
            /\ IF stop_after_mkvinfo(d)
               THEN pc' = "done" /\ result' = Ok(d)
               ELSE pc' = "invokeB" /\ UNCHANGED result
    /\ stderr' = parse_stderr(out, "Warning")
    /\ exit' = parse_exit(out)
    /\ UNCHANGED <<bText, cText, bOut, cOut, fn_vars, out_vars>>

\* mutant: a failing source B is a warning, like a failing source A
Metadata_parse_mediainfo_recoverable(text, out) ==
    /\ pc = "invokeB"
    /\ bText' = text
    /\ bOut' = out
    /\ calls' = Append(calls, "B")
    /\ CASE out.kind = "Panic" ->
              /\ pc' = "aborted"
              /\ UNCHANGED <<data, result>>
         [] out.kind = "Err" ->
              /\ pc' = "invokeC"
              /\ UNCHANGED <<data, result>>
         [] out.kind = "Ok" ->
              LET d == merge_mediainfo(data, out.val) IN
              /\ data' = d
              /\ IF stop_after_mediainfo(d)
                 THEN pc' = "done" /\ result' = Ok(d)
                 ELSE pc' = "invokeC" /\ UNCHANGED result
    /\ stderr' = parse_stderr(out, "Warning")
    /\ exit' = parse_exit(out)
    /\ UNCHANGED <<aText, cText, aOut, cOut, fn_vars, out_vars>>

Metadata_parse_mediainfo(text, out) ==
    /\ pc = "invokeB"
    /\ bText' = text
    /\ bOut' = out
    /\ calls' = Append(calls, "B")
    /\ CASE out.kind = "Panic" ->
              /\ pc' = "aborted"
              /\ UNCHANGED <<data, result>>
         [] out.kind = "Err" ->
              /\ pc' = "failed"
              /\ result' = Err
              /\ UNCHANGED data
         [] out.kind = "Ok" ->
              LET d == merge_mediainfo(data, out.val) IN
              /\ data' = d
              /\ IF stop_after_mediainfo(d)
                 THEN pc' = "done" /\ result' = Ok(d)
                 ELSE pc' = "invokeC" /\ UNCHANGED result
    /\ stderr' = parse_stderr(out, "Error")
    /\ exit' = parse_exit(out)
    /\ UNCHANGED <<aText, cText, aOut, cOut, fn_vars, out_vars>>

\* mutant: a failing source C is invoked again
Metadata_parse_ffprobe_retried(text, out) ==
    /\ pc = "invokeC"
    /\ cText' = text
    /\ cOut' = out
    /\ calls' = Append(calls, "C")
    /\ CASE out.kind = "Panic" ->
              /\ pc' = "aborted"
              /\ UNCHANGED <<data, result>>
         [] out.kind = "Err" ->
              /\ pc' = "invokeC"
              /\ UNCHANGED <<data, result>>
         [] out.kind = "Ok" ->
              LET d == merge_ffprobe(data, out) IN
              /\ data' = d
              /\ pc' = "done"
              /\ result' = Ok(d)
    /\ stderr' = parse_stderr(out, "Warning")
    /\ exit' = parse_exit(out)
    /\ UNCHANGED <<aText, bText, aOut, bOut, fn_vars, out_vars>>

Metadata_parse_ffprobe(text, out) ==
    /\ pc = "invokeC"
    /\ cText' = text
    /\ cOut' = out
    /\ calls' = Append(calls, "C")
    /\ IF out.kind = "Panic"
       THEN /\ pc' = "aborted"
            /\ UNCHANGED <<data, result>>
       ELSE LET d == merge_ffprobe(data, out) IN
            /\ data' = d
            /\ pc' = "done"
            /\ result' = Ok(d)
    /\ stderr' = parse_stderr(out, "Warning")
    /\ exit' = parse_exit(out)
    /\ UNCHANGED <<aText, bText, aOut, bOut, fn_vars, out_vars>>

\* The state when Metadata::parse is entered.
Init ==
    /\ pc = "start"
    /\ aText = NoText /\ bText = NoText /\ cText = NoText
    /\ aOut = NoResult /\ bOut = NoResult /\ cOut = NoResult
    /\ data = Metadata_default
    /\ calls = <<>>
    /\ result = NoResult
    /\ arg = NoCall /\ ret = NoResult
    /\ spawned = <<>> /\ stdout = <<>> /\ printed = NotPrinted
    /\ stderr = <<>> /\ exit = Running

(***************************************************************************)
(* Spec: Metadata::parse over every outcome the three parsers can have.    *)
(***************************************************************************)
InvokeMkvinfo == \E out \in MetadataOutcomes : Metadata_parse_mkvinfo(NoText, out)

InvokeMediainfo == \E out \in MetadataOutcomes : Metadata_parse_mediainfo(NoText, out)

InvokeFfprobe == \E out \in FfprobeOutcomes : Metadata_parse_ffprobe(NoText, out)

Next ==
    \/ InvokeMkvinfo
    \/ InvokeMediainfo
    \/ InvokeFfprobe

Spec == Init /\ [][Next]_vars

(***************************************************************************)
(* Claims about Metadata::parse.                                           *)
(***************************************************************************)
\* basic, hdr and hdr.color_coords all populated
Complete(m) ==
    /\ is_some(m.basic)
    /\ is_some(m.hdr)
    /\ is_some(m.hdr.val.color_coords)

Invoked(p) == \E i \in 1 .. Len(calls) : calls[i] = p

\* C1: whenever source A succeeds with basic, hdr and hdr.color_coords all
\* populated, Metadata::parse returns exactly A's record and neither source B
\* nor source C is invoked.
C1_ShortCircuit ==
    (aOut.kind = "Ok" /\ Complete(aOut.val)) =>
        /\ pc = "done"
        /\ result = Ok(aOut.val)
        /\ calls = <<"A">>
        /\ bOut = NoResult
        /\ cOut = NoResult

C1_Witness ==
    /\ aOut.kind = "Ok"
    /\ Complete(aOut.val)
    /\ pc = "done"

\* C2: whenever source B is invoked and fails, Metadata::parse returns an
\* error, whatever source A returned, and source C is not invoked afterwards.
C2_FatalOnB ==
    bOut.kind = "Err" =>
        /\ Invoked("B")
        /\ pc = "failed"
        /\ result = Err
        /\ ~Invoked("C")
        /\ cOut = NoResult

C2_Witness ==
    /\ bOut.kind = "Err"
    /\ aOut.kind = "Ok"
    /\ is_some(aOut.val.basic)
    /\ result = Err

\* C3: if source A fails and source B succeeds with a record R in which basic,
\* hdr and hdr.color_coords are all populated, Metadata::parse returns exactly
\* R, the result it returns when source A itself succeeds with R; source C is
\* not invoked in either run.
C3_FailedAThenCompleteB ==
    /\ (aOut.kind = "Err" /\ bOut.kind = "Ok" /\ Complete(bOut.val)) =>
           (result = Ok(bOut.val) /\ ~Invoked("C"))
    /\ (aOut.kind = "Ok" /\ Complete(aOut.val)) =>
           (result = Ok(aOut.val) /\ ~Invoked("C"))

C3_Witness ==
    /\ aOut.kind = "Err"
    /\ bOut.kind = "Ok"
    /\ Complete(bOut.val)
    /\ result = Ok(bOut.val)

\* C4: failures of source A and of source C are recoverable.  Metadata::parse
\* returns an error only when source B failed, and returns Ok once source C has
\* returned, failed or not; after a failing A the working record is the empty
\* record and B is invoked next; a failing C leaves the working record as it was
\* after source B, and that record is returned.
C4_RecoverableAC ==
    /\ [](/\ (pc = "failed" \/ result.kind = "Err") => bOut.kind = "Err"
          /\ cOut.kind \in {"Ok", "Err"} => (pc = "done" /\ result.kind = "Ok")
          /\ (aOut.kind = "Err" /\ bOut = NoResult) =>
                 (pc = "invokeB" /\ data = Metadata_default)
          /\ (pc = "done" /\ result.kind = "Ok") => result.val = data)
    /\ [][(pc = "invokeC" /\ cOut'.kind = "Err") =>
             (data' = data /\ result' = Ok(data))]_vars

C4_Witness ==
    /\ aOut.kind = "Err"
    /\ bOut.kind = "Ok"
    /\ cOut.kind = "Err"
    /\ is_some(data.hdr)
    /\ result = Ok(data)

(***************************************************************************)
(* The parsers as Metadata::parse calls them.  There basic and             *)
(* hdr.color_coords are options: basic is populated when a line assigned a *)
(* basic field, color_coords when a line assigned a coordinate; absence is *)
(* tracked by the lines seen, never inferred from zero values.             *)
(***************************************************************************)
BasicFields == {"matrix", "range", "transfer", "primaries"}

CoordFields == {"red.0", "red.1", "green.0", "green.1", "blue.0", "blue.1",
                "white.0", "white.1", "color_coords"}

\* the fields the lines of a text assign under a label table
fields_seen(lines, table, test) ==
    {table[first_match(lines[i], table, test)][2] :
        i \in {j \in 1 .. Len(lines) : first_match(lines[j], table, test) # 0}}

\* an "Encoding settings" line with a master-display string is read
settings_seen(lines) ==
    \E i \in 1 .. Len(lines) :
        /\ first_match(lines[i], MediainfoLabels, "contains") = 0
        /\ contains(lines[i], "Encoding settings")
        /\ contains(lines[i], "master-display")

with_coords(hdr, seen) ==
    [hdr EXCEPT !.color_coords = IF seen \cap CoordFields # {} THEN Some(@) ELSE None]

with_options(m, seen) ==
    [basic |-> IF seen \cap BasicFields # {} THEN Some(m.basic) ELSE None,
     hdr |-> IF is_some(m.hdr) THEN Some(with_coords(m.hdr.val, seen)) ELSE None]

core_parse_mkvinfo(probe) ==
    LET r == parse_mkvinfo(probe) IN
    IF r.kind = "Ok"
    THEN Ok(with_options(r.val, fields_seen(probe.lines, MkvinfoLabels, "contains")))
    ELSE r

core_parse_mediainfo(probe) ==
    LET r == parse_mediainfo(probe) IN
    IF r.kind = "Ok"
    THEN Ok(with_options(r.val,
                fields_seen(probe.lines, MediainfoLabels, "contains")
                \cup (IF settings_seen(probe.lines) THEN {"color_coords"} ELSE {})))
    ELSE r

core_parse_ffprobe(probe) ==
    LET r == parse_ffprobe(probe) IN
    IF r.kind = "Ok" /\ is_some(r.val)
    THEN Ok(Some(with_coords(r.val.val,
                    fields_seen(probe.lines, FfprobeLabels, "starts_with"))))
    ELSE r

(***************************************************************************)
(* The texts the probes print in the text-level specification.             *)
(***************************************************************************)
GarbageLines == <<"", "hello world", "|+ EBML head", "Format : HEVC", "[FRAME]">>

MkvinfoBasicLines ==
    <<"|    + Colour matrix coefficients: 9", "|    + Colour range: 1",
      "|    + Colour transfer: 16", "|    + Colour primaries: 9">>

MkvinfoHdrLines ==
    <<"|    + Maximum content light: 944", "|    + Maximum frame light: 143",
      "|    + Video colour mastering metadata",
      "|     + Maximum luminance: 1000", "|     + Minimum luminance: 0.0050">>

MkvinfoCoordLines ==
    <<"|     + Red colour coordinate x: 0.68", "|     + Red colour coordinate y: 0.31998",
      "|     + Green colour coordinate x: 0.265",
      "|     + Green colour coordinate y: 0.68998",
      "|     + Blue colour coordinate x: 0.14998",
      "|     + Blue colour coordinate y: 0.05998",
      "|     + White colour coordinate x: 0.31268",
      "|     + White colour coordinate y: 0.329">>

\* the basic lines, then a matched line whose value is not a number
MkvinfoMalformedText ==
    Stdout(MkvinfoBasicLines \o <<"|    + Maximum content light: n/a">>)

\* the HDR numbers without the header of the HDR section
MkvinfoNumbersText ==
    Stdout(<<"|    + Maximum content light: 944", "|    + Maximum frame light: 143",
             "|     + Maximum luminance: 1000", "|     + Minimum luminance: 0.0050">>
           \o MkvinfoCoordLines)

\* the header alone, and the header over values that are all 0
MkvinfoHeaderText == Stdout(<<"|    + Video colour mastering metadata">>)

MkvinfoZerosText ==
    Stdout(<<"|    + Maximum content light: 0", "|    + Maximum frame light: 0",
             "|    + Video colour mastering metadata",
             "|     + Maximum luminance: 0", "|     + Minimum luminance: 0">>)

\* a number that is the code of no matrix
MkvinfoUnrecognizedText == Stdout(<<"|    + Colour matrix coefficients: 3">>)

MkvinfoTexts ==
    {Unavailable, Stdout(<<>>), Stdout(GarbageLines), Stdout(MkvinfoBasicLines),
     MkvinfoMalformedText, MkvinfoUnrecognizedText,
     MkvinfoNumbersText, MkvinfoHeaderText, MkvinfoZerosText,
     Stdout(MkvinfoHdrLines), Stdout(MkvinfoBasicLines \o MkvinfoHdrLines),
     Stdout(MkvinfoBasicLines \o MkvinfoHdrLines \o MkvinfoCoordLines),
     Stdout(<<"|    + Colour range: limited">>),
     Stdout(<<"|    + Colour range:1">>)}

MediainfoBasicLines ==
    <<"Color range                              : Limited",
      "Color primaries                          : BT.2020",
      "Transfer characteristics                 : PQ",
      "Matrix coefficients                      : BT.2020 non-constant">>

MediainfoHdrLines ==
    <<"Mastering display color primaries        : Display P3",
      "Mastering display luminance              : min: 0.0050 cd/m2, max: 1000 cd/m2",
      "Maximum Content Light Level              : 944 cd/m2",
      "Maximum Frame-Average Light Level        : 143 cd/m2">>

SampleMasterDisplay ==
    "master-display=G(13250,34499)B(7499,2999)R(34000,15999)WP(15634,16450)L(10000000,50)"

MediainfoSettingsLine ==
    "Encoding settings                        : cpuid=1 / " \o SampleMasterDisplay
        \o "cll=944,143"

\* the basic lines, then a matched line whose value is not a number
MediainfoMalformedText ==
    Stdout(MediainfoBasicLines
           \o <<"Maximum Content Light Level              : 944 nits">>)

\* the HDR numbers without the header of the HDR section
MediainfoNumbersText ==
    Stdout(<<"Mastering display luminance              : min: 0.0050 cd/m2, max: 1000 cd/m2",
             "Maximum Content Light Level              : 944 cd/m2",
             "Maximum Frame-Average Light Level        : 143 cd/m2",
             MediainfoSettingsLine>>)

\* the header alone, and the header over values that are all 0
MediainfoHeaderText ==
    Stdout(<<"Mastering display color primaries        : Display P3">>)

MediainfoZerosText ==
    Stdout(<<"Mastering display color primaries        : Display P3",
             "Mastering display luminance              : min: 0 cd/m2, max: 0 cd/m2",
             "Maximum Content Light Level              : 0 cd/m2",
             "Maximum Frame-Average Light Level        : 0 cd/m2">>)

\* a name that no arm of the matrix parser holds
MediainfoUnrecognizedText ==
    Stdout(<<"Matrix coefficients                      : ICtCp">>)

MediainfoTexts ==
    {Unavailable, Stdout(<<>>), Stdout(GarbageLines), Stdout(MediainfoBasicLines),
     MediainfoMalformedText, MediainfoUnrecognizedText,
     MediainfoNumbersText, MediainfoHeaderText, MediainfoZerosText,
     Stdout(MediainfoHdrLines), Stdout(MediainfoBasicLines \o MediainfoHdrLines),
     Stdout(MediainfoBasicLines \o MediainfoHdrLines \o <<MediainfoSettingsLine>>),
     Stdout(<<"Mastering display color primaries        : Display P3",
              MediainfoSettingsLine>>),
     Stdout(<<"Maximum Content Light Level              : 944 nits">>),
     Stdout(<<"Mastering display luminance              : 1000 cd/m2">>),
     Stdout(<<"Encoding settings                        : master-display=G(1,2)R(3,4)">>)}

FfprobeMasteringLines ==
    <<"[SIDE_DATA]", "side_data_type=Mastering display metadata",
      "red_x=34000/50000", "red_y=15999/50000", "green_x=13250/50000",
      "green_y=34499/50000", "blue_x=7499/50000", "blue_y=2999/50000",
      "white_point_x=15634/50000", "white_point_y=16450/50000",
      "min_luminance=50/10000", "max_luminance=10000000/10000", "[/SIDE_DATA]">>

FfprobeLightLines ==
    <<"[SIDE_DATA]", "side_data_type=Content light level metadata",
      "max_content=944", "max_average=143", "[/SIDE_DATA]">>

\* fraction and integer lines under no side-data header
FfprobeNumbersText == Stdout(<<"red_x=34000/50000", "max_luminance=10000000/10000",
                               "max_content=944", "max_average=143">>)

FfprobeTexts ==
    {Unavailable, Stdout(<<>>), Stdout(GarbageLines), Stdout(FfprobeMasteringLines),
     Stdout(FfprobeLightLines), FfprobeNumbersText,
     Stdout(FfprobeMasteringLines \o FfprobeLightLines),
     Stdout(<<"side_data_type=Mastering display metadata",
              "side_data_type=Content light level metadata", "max_content=944">>),
     Stdout(<<"side_data_type=Mastering display metadata",
              "side_data_type=Content light level metadata", "max_content=many">>),
     Stdout(<<"side_data_type=Mastering display metadata", "max_luminance=1000/0",
              "side_data_type=Content light level metadata">>)}

(***************************************************************************)
(* SpecText: Metadata::parse over the texts the three probes print.        *)
(***************************************************************************)
ProbeMkvinfo == \E t \in MkvinfoTexts : Metadata_parse_mkvinfo(t, core_parse_mkvinfo(t))

ProbeMediainfo ==
    \E t \in MediainfoTexts : Metadata_parse_mediainfo(t, core_parse_mediainfo(t))

ProbeFfprobe == \E t \in FfprobeTexts : Metadata_parse_ffprobe(t, core_parse_ffprobe(t))

NextText ==
    \/ ProbeMkvinfo
    \/ ProbeMediainfo
    \/ ProbeFfprobe

SpecText == Init /\ [][NextText]_vars

(***************************************************************************)
(* Claims about Metadata::parse over probe texts.                          *)
(***************************************************************************)
\* a text that was printed and in which no line matches a label of the table
NoLabel(text, table, test) ==
    /\ text.kind = "stdout"
    /\ fields_seen(text.lines, table, test) = {}

\* the conditions of parse_ffprobe's HDR section are not both in the text
NoSection(text) ==
    /\ text.kind = "stdout"
    /\ ~(/\ output_contains(text.lines, "side_data_type=Mastering display metadata")
         /\ output_contains(text.lines, "side_data_type=Content light level metadata"))

AllGarbage ==
    /\ NoLabel(aText, MkvinfoLabels, "contains")
    /\ NoLabel(bText, MediainfoLabels, "contains") /\ ~settings_seen(bText.lines)
    /\ NoSection(cText)

SmallTokens == {ToString(n) : n \in 0 .. MaxToken}

CoordTokens == SmallTokens \cup {"13250", "2147483647"}

\* G(gx,gy)B(bx,by)R(rx,ry)WP(wx,wy) for tokens <<gx, gy, bx, by, rx, ry, wx, wy>>
master_display(t) ==
    "G(" \o t[1] \o "," \o t[2] \o ")B(" \o t[3] \o "," \o t[4] \o ")R("
         \o t[5] \o "," \o t[6] \o ")WP(" \o t[7] \o "," \o t[8] \o ")"

SampleTokens == <<"13250", "34499", "7499", "2999", "34000", "15999", "15634", "16450">>

\* a token above u32::MAX
HugeToken == "99999999999"

X265Tokens ==
    {<<gx, gy, br[1], br[2], br[3], br[4], wx, wy>> :
        gx \in CoordTokens, gy \in SmallTokens \cup {"34499"},
        br \in {<<"7499", "2999", "34000", "15999">>, <<"0", "50000", "1", "2">>},
        wx \in SmallTokens \cup {"15634"}, wy \in SmallTokens \cup {"16450"}}
    \cup {SampleTokens, [SampleTokens EXCEPT ![8] = HugeToken],
          [SampleTokens EXCEPT ![1] = HugeToken]}

X265Inputs ==
    {[fn |-> "parse_x265_settings", tokens |-> t,
      input |-> "cpuid=1 / master-display=" \o master_display(t)
                    \o "L(10000000,50)cll=944,143"] : t \in X265Tokens}
    \cup {[fn |-> "parse_x265_settings", tokens |-> <<>>, input |-> i] :
            i \in {"cpuid=1 / no-sao", "master-display=G(1,2)R(3,4)B(5,6)WP(7,8)",
                   "master-display=G(1,2)B(3,4)R(5,6)", "master-display=WP(7,8)"}}

\* a mediainfo text with the HDR header, one luminance line or none, and one
\* "Encoding settings" line with an L(M,m) pair or none
LuminanceLines ==
    {None,
     Some([min |-> "0.0050", max |-> "1000", min_value |-> Rat(50, 10000),
           max_value |-> 1000]),
     Some([min |-> "0.0100", max |-> "4000", min_value |-> Rat(100, 10000),
           max_value |-> 4000])}

LPairs ==
    {None,
     Some([max |-> "10000000", min |-> "50", max_value |-> 10000000, min_value |-> 50]),
     Some([max |-> "40000000", min |-> "100", max_value |-> 40000000, min_value |-> 100])}

mediainfo_lines(lum, L) ==
    <<"Mastering display color primaries        : Display P3">>
    \o (IF is_some(lum)
        THEN <<"Mastering display luminance              : min: " \o lum.val.min
                   \o " cd/m2, max: " \o lum.val.max \o " cd/m2">>
        ELSE <<>>)
    \o (IF is_some(L)
        THEN <<"Encoding settings                        : cpuid=1 / master-display="
                   \o master_display(SampleTokens)
                   \o "L(" \o L.val.max \o "," \o L.val.min \o ")cll=944,143">>
        ELSE <<>>)

MediainfoInputs ==
    {[fn |-> "parse_mediainfo", lum |-> lum, L |-> L,
      input |-> Stdout(mediainfo_lines(lum, L))] : lum \in LuminanceLines, L \in LPairs}
    \cup {[fn |-> "parse_mediainfo", lum |-> None, L |-> None, input |-> t] :
            t \in MediainfoTexts}

MkvinfoInputs == {[fn |-> "parse_mkvinfo", input |-> t] : t \in MkvinfoTexts}

FfprobeInputs == {[fn |-> "parse_ffprobe", input |-> t] : t \in FfprobeTexts}

InitFn ==
    /\ pc = "start"
    /\ aText = NoText /\ bText = NoText /\ cText = NoText
    /\ aOut = NoResult /\ bOut = NoResult /\ cOut = NoResult
    /\ data = Metadata_default
    /\ calls = <<>>
    /\ result = NoResult
    /\ arg \in X265Inputs \cup MediainfoInputs \cup MkvinfoInputs \cup FfprobeInputs
    /\ ret = NoResult
    /\ spawned = <<>> /\ stdout = <<>> /\ printed = NotPrinted
    /\ stderr = <<>> /\ exit = Running

\* Each action applies its function once to the input, and keeps what it returns.
call_parse_mkvinfo ==
    \E a \in MkvinfoInputs : \E v \in {parse_mkvinfo(a.input)} :
        /\ arg = a
        /\ ret = NoResult
        /\ ret' = v
        /\ UNCHANGED <<parse_vars, arg, out_vars, proc_vars>>

call_parse_mediainfo ==
    \E a \in MediainfoInputs : \E v \in {parse_mediainfo(a.input)} :
        /\ arg = a
        /\ ret = NoResult
        /\ ret' = v
        /\ UNCHANGED <<parse_vars, arg, out_vars, proc_vars>>

call_parse_ffprobe ==
    \E a \in FfprobeInputs : \E v \in {parse_ffprobe(a.input)} :
        /\ arg = a
        /\ ret = NoResult
        /\ ret' = v
        /\ UNCHANGED <<parse_vars, arg, out_vars, proc_vars>>

call_parse_x265_settings ==
    \E a \in X265Inputs : \E v \in {parse_x265_settings(a.input)} :
        /\ arg = a
        /\ ret = NoResult
        /\ ret' = v
        /\ UNCHANGED <<parse_vars, arg, out_vars, proc_vars>>

NextFn ==
    \/ call_parse_mkvinfo
    \/ call_parse_mediainfo
    \/ call_parse_ffprobe
    \/ call_parse_x265_settings

SpecFn == InitFn /\ [][NextFn]_vars

(***************************************************************************)
(* Claims about the parsers.                                               *)
(***************************************************************************)
\* C6: every source parser, on every input text, returns a record or an error
\* value and never aborts the process; a label line without ": ", a
\* master-display string off the G,B,R,WP grammar and a max_luminance fraction
\* with denominator 0 are such inputs.
C6_ParsersNeverAbort == ret.kind \in {"NoResult", "Ok", "Err"}

C6_AbortReached ==
    /\ arg = [fn |-> "parse_mkvinfo", input |-> Stdout(<<"|    + Colour range:1">>)]
    /\ ret = Panic

\* the value of a token of the master-display string
token_value(t) == digits_value(t)

\* (x/50000, y/50000)
coordinate(x, y) == <<Rat(token_value(x), 50000), Rat(token_value(y), 50000)>>

\* C7: for all non-negative integer tokens, parse_x265_settings reads
\* G(gx,gy)B(bx,by)R(rx,ry)WP(wx,wy) in that order and returns green, blue, red
\* and white as the token pairs divided by 50000.
C7_CoordinatesOfTokens ==
    (arg.fn = "parse_x265_settings" /\ arg.tokens # <<>> /\ ret # NoResult) =>
        /\ ret.kind = "Ok"
        /\ ret.val = [green |-> coordinate(arg.tokens[1], arg.tokens[2]),
                      blue |-> coordinate(arg.tokens[3], arg.tokens[4]),
                      red |-> coordinate(arg.tokens[5], arg.tokens[6]),
                      white |-> coordinate(arg.tokens[7], arg.tokens[8])]

\* C7 for tokens that fit 32 bits: the same coordinates, and the documented
\* example.
C7_CoordinatesOfU32Tokens ==
    (/\ arg.fn = "parse_x265_settings"
     /\ arg.tokens # <<>>
     /\ \A i \in 1 .. Len(arg.tokens) : fits(arg.tokens[i], U32_MAX)
     /\ ret # NoResult) =>
        /\ ret.kind = "Ok"
        /\ ret.val = [green |-> coordinate(arg.tokens[1], arg.tokens[2]),
                      blue |-> coordinate(arg.tokens[3], arg.tokens[4]),
                      red |-> coordinate(arg.tokens[5], arg.tokens[6]),
                      white |-> coordinate(arg.tokens[7], arg.tokens[8])]
        /\ arg.tokens = SampleTokens =>
               ret.val = [green |-> <<Rat(26500, 100000), Rat(68998, 100000)>>,
                          blue |-> <<Rat(14998, 100000), Rat(5998, 100000)>>,
                          red |-> <<Rat(68000, 100000), Rat(31998, 100000)>>,
                          white |-> <<Rat(31268, 100000), Rat(32900, 100000)>>]

C7_HugeTokenAborts ==
    /\ arg.fn = "parse_x265_settings"
    /\ arg.tokens = [SampleTokens EXCEPT ![8] = HugeToken]
    /\ ret = Panic

\* the mediainfo text of the input is the HDR header, the luminance line
\* arg.lum and the settings line with the pair arg.L
LuminanceInput ==
    /\ arg.fn = "parse_mediainfo"
    /\ arg.input = Stdout(mediainfo_lines(arg.lum, arg.L))
    /\ ret # NoResult

get_horiz(loc) ==
    CASE loc \in {"Left", "TopLeft", "BottomLeft"} -> 1
      [] loc \in {"Center", "Top", "Bottom"} -> 2

\* mutant: every chroma location is sited vertically at the half position
get_vert_half(loc) == 2

get_vert(loc) ==
    CASE loc \in {"TopLeft", "Top"} -> 1
      [] loc \in {"Left", "Center"} -> 2
      [] loc \in {"BottomLeft", "Bottom"} -> 3

\* mutant: the range is passed through
color_range_passed_through(value) == value

color_range_to_mkvedit_prop(value) == IF value = 0 THEN 2 ELSE value

\* <<floor(n * 10^k / d), the remainder>>, by long division
RECURSIVE scaled_div(_, _, _)
scaled_div(n, d, k) ==
    IF k = 0 THEN <<n \div d, n % d>>
    ELSE LET p == scaled_div(n, d, k - 1) IN
         <<p[1] * 10 + (p[2] * 10) \div d, (p[2] * 10) % d>>

RECURSIVE pad_zeros(_, _)
pad_zeros(s, k) == IF Len(s) >= k THEN s ELSE pad_zeros("0" \o s, k)

\* format!("{:.k}", r): k decimals, rounded to nearest (a value exactly half way
\* between two results goes to the even one; no record of SpecOut holds one)
fmt_fixed(r, k) ==
    IF r = RatNaN THEN "NaN"
    ELSE IF r = RatInf THEN "inf"
    ELSE IF r = rat_neg(RatInf) THEN "-inf"
    ELSE LET a == IF r[1] < 0 THEN 0 - r[1] ELSE r[1]
             p == scaled_div(a, r[2], k)
             up == 2 * p[2] > r[2] \/ (2 * p[2] = r[2] /\ p[1] % 2 = 1)
             v == IF up THEN p[1] + 1 ELSE p[1]
         IN  (IF r[1] < 0 THEN "-" ELSE "") \o ToString(v \div pow10(k)) \o "."
                 \o pad_zeros(ToString(v % pow10(k)), k)

\* .arg("-s").arg(format!("name=value"))
set_prop(name, value) == <<"-s", name \o "=" \o value>>

\* mutant: every basic field is emitted, the unspecified ones too
basic_props_unconditional(basic) ==
    set_prop("colour-transfer-characteristics", ToString(basic.transfer))
    \o set_prop("colour-primaries", ToString(basic.primaries))
    \o set_prop("colour-matrix-coefficients", ToString(basic.matrix))
    \o set_prop("colour-range", ToString(color_range_to_mkvedit_prop(basic.range)))
    \o set_prop("chroma-siting-horizontal", ToString(get_horiz(basic.chroma_location)))
    \o set_prop("chroma-siting-vertical", ToString(get_vert(basic.chroma_location)))

basic_props(basic) ==
    (IF basic.transfer # 2
     THEN set_prop("colour-transfer-characteristics", ToString(basic.transfer))
     ELSE <<>>)
    \o (IF basic.primaries # 2
        THEN set_prop("colour-primaries", ToString(basic.primaries))
        ELSE <<>>)
    \o (IF basic.matrix # 2
        THEN set_prop("colour-matrix-coefficients", ToString(basic.matrix))
        ELSE <<>>)
    \o set_prop("colour-range", ToString(color_range_to_mkvedit_prop(basic.range)))
    \o set_prop("chroma-siting-horizontal", ToString(get_horiz(basic.chroma_location)))
    \o set_prop("chroma-siting-vertical", ToString(get_vert(basic.chroma_location)))

coords_props(c) ==
    set_prop("chromaticity-coordinates-red-x", fmt_fixed(c.red[1], 5))
    \o set_prop("chromaticity-coordinates-red-y", fmt_fixed(c.red[2], 5))
    \o set_prop("chromaticity-coordinates-green-x", fmt_fixed(c.green[1], 5))
    \o set_prop("chromaticity-coordinates-green-y", fmt_fixed(c.green[2], 5))
    \o set_prop("chromaticity-coordinates-blue-x", fmt_fixed(c.blue[1], 5))
    \o set_prop("chromaticity-coordinates-blue-y", fmt_fixed(c.blue[2], 5))
    \o set_prop("white-coordinates-x", fmt_fixed(c.white[1], 5))
    \o set_prop("white-coordinates-y", fmt_fixed(c.white[2], 5))

\* mutant: the luminances are emitted only when they are not 0
hdr_props_nonzero_only(hdr_data) ==
    (IF hdr_data.max_content_light > 0
     THEN set_prop("max-content-light", ToString(hdr_data.max_content_light))
     ELSE <<>>)
    \o (IF hdr_data.max_frame_light > 0
        THEN set_prop("max-frame-light", ToString(hdr_data.max_frame_light))
        ELSE <<>>)
    \o (IF hdr_data.max_luma > 0
        THEN set_prop("max-luminance", ToString(hdr_data.max_luma)) ELSE <<>>)
    \o (IF hdr_data.min_luma[1] > 0
        THEN set_prop("min-luminance", fmt_fixed(hdr_data.min_luma, 4)) ELSE <<>>)
    \o (IF is_some(hdr_data.color_coords)
        THEN coords_props(hdr_data.color_coords.val)
        ELSE <<>>)

hdr_props(hdr_data) ==
    (IF hdr_data.max_content_light > 0
     THEN set_prop("max-content-light", ToString(hdr_data.max_content_light))
     ELSE <<>>)
    \o (IF hdr_data.max_frame_light > 0
        THEN set_prop("max-frame-light", ToString(hdr_data.max_frame_light))
        ELSE <<>>)
    \o set_prop("max-luminance", ToString(hdr_data.max_luma))
    \o set_prop("min-luminance", fmt_fixed(hdr_data.min_luma, 4))
    \o (IF is_some(hdr_data.color_coords)
        THEN coords_props(hdr_data.color_coords.val)
        ELSE <<>>)

\* the Command as its program followed by its arguments
build_mkvmerge_command(self, target, chapters) ==
    <<"mkvpropedit", "-e", "track:v1">>
    \o (IF is_some(self.basic) THEN basic_props(self.basic.val) ELSE <<>>)
    \o (IF is_some(self.hdr) THEN hdr_props(self.hdr.val) ELSE <<>>)
    \o (IF is_some(chapters) THEN <<"-c", chapters.val>> ELSE <<>>)
    \o <<target>>

\* format!("{:?}", s) of a string without quotes, backslashes or control characters
str_debug(s) == "\"" \o s \o "\""

\* format!("{:?}", command): the program and the arguments, each as {:?}
RECURSIVE Command_debug(_)
Command_debug(command) ==
    IF Len(command) = 1 THEN str_debug(command[1])
    ELSE str_debug(command[1]) \o " " \o Command_debug(Tail(command))

\* str::replace(from, to) for a one-character pattern
RECURSIVE replace(_, _, _)
replace(s, from, to) ==
    IF Len(s) = 0 THEN ""
    ELSE IF Len(s) = 1 THEN (IF s = from THEN to ELSE s)
    ELSE LET half == Len(s) \div 2 IN
         replace(SubSeq(s, 1, half), from, to)
             \o replace(SubSeq(s, half + 1, Len(s)), from, to)

\* the line print_mkvmerge_args prints
mkvmerge_args_line(self) ==
    trim_end_matches(
        trim_start_matches(
            replace(Command_debug(build_mkvmerge_command(self, "NUL", None)), "\"", ""),
            "mkvmerge -o NUL "),
        " NUL")

(***************************************************************************)
(* The dictionaries of values.rs, printing direction: the label or the     *)
(* token of a code, or the panic of the match arm the code falls into.      *)
(***************************************************************************)
print_color_range_table ==
    0 :> "Full" @@
    1 :> "Limited"

print_color_range(value) ==
    IF value \in DOMAIN print_color_range_table THEN Ok(print_color_range_table[value])
    ELSE PanicWith("Unrecognized color range")

print_x265_color_range_table ==
    0 :> "full" @@
    1 :> "limited"

print_x265_color_range(value) ==
    IF value \in DOMAIN print_x265_color_range_table THEN Ok(print_x265_color_range_table[value])
    ELSE PanicWith("Unrecognized color range")

print_rav1e_color_range_table ==
    0 :> "Full" @@
    1 :> "Limited"

print_rav1e_color_range(value) ==
    IF value \in DOMAIN print_rav1e_color_range_table THEN Ok(print_rav1e_color_range_table[value])
    ELSE PanicWith("Unrecognized color range")

print_matrix_coefficients_table ==
    0 :> "RGB" @@
    1 :> "BT.709" @@
    2 :> "Unspecified" @@
    4 :> "FCC" @@
    5 :> "BT.470 BG" @@
    6 :> "SMPTE 170m/BT.601" @@
    7 :> "SMPTE 240m" @@
    8 :> "YCgCo" @@
    9 :> "BT.2020 Non-Constant Light" @@
    10 :> "BT.2020 Constant Light" @@
    12 :> "Chroma-Derived Non-Constant Light" @@
    13 :> "Chroma-Derived Constant Light"

print_matrix_coefficients(value) ==
    IF value \in DOMAIN print_matrix_coefficients_table THEN Ok(print_matrix_coefficients_table[value])
    ELSE PanicWith("Unrecognized matrix coefficients")

print_x265_matrix_coefficients_table ==
    1 :> "bt709" @@
    2 :> "unknown" @@
    4 :> "fcc" @@
    5 :> "bt470bg" @@
    6 :> "smpte170m" @@
    7 :> "smpte240m" @@
    8 :> "ycgco" @@
    9 :> "bt2020nc" @@
    10 :> "bt2020c" @@
    12 :> "chroma-derived-nc" @@
    13 :> "chroma-derived-c"

\* Variant for comparison: code 0 printed with a token instead of refused.
print_x265_matrix_coefficients_gbr(value) ==
    IF value = 0 THEN Ok("gbr")
    ELSE IF value \in DOMAIN print_x265_matrix_coefficients_table
    THEN Ok(print_x265_matrix_coefficients_table[value])
    ELSE PanicWith("Unrecognized matrix coefficients")

print_x265_matrix_coefficients(value) ==
    IF value = 0 THEN PanicWith("RGB not supported by x265") ELSE
    IF value \in DOMAIN print_x265_matrix_coefficients_table THEN Ok(print_x265_matrix_coefficients_table[value])
    ELSE PanicWith("Unrecognized matrix coefficients")

print_rav1e_matrix_coefficients_table ==
    1 :> "BT709" @@
    2 :> "Unspecified" @@
    4 :> "FCC" @@
    5 :> "BT470BG" @@
    6 :> "BT601" @@
    7 :> "SMPTE240" @@
    8 :> "YCgCo" @@
    9 :> "BT2020NCL" @@
    10 :> "BT2020CL" @@
    12 :> "ChromatNCL" @@
    13 :> "ChromatCL"

print_rav1e_matrix_coefficients(value) ==
    IF value = 0 THEN PanicWith("RGB not supported by rav1e") ELSE
    IF value \in DOMAIN print_rav1e_matrix_coefficients_table THEN Ok(print_rav1e_matrix_coefficients_table[value])
    ELSE PanicWith("Unrecognized matrix coefficients")

print_transfer_characteristics_table ==
    1 :> "BT.709" @@
    2 :> "Unspecified" @@
    4 :> "BT.470 M" @@
    5 :> "BT.470 BG" @@
    6 :> "SMPTE 170m/BT.601" @@
    7 :> "SMPTE 240m" @@
    8 :> "Linear" @@
    9 :> "Log 100" @@
    10 :> "Log 316" @@
    11 :> "IEC 61966-2-4" @@
    13 :> "IEC 61966-2-1" @@
    14 :> "BT.2020 10-bit" @@
    15 :> "BT.2020 12-bit" @@
    16 :> "PQ/SMPTE 2084" @@
    18 :> "ARIB B67"

print_transfer_characteristics(value) ==
    IF value \in DOMAIN print_transfer_characteristics_table THEN Ok(print_transfer_characteristics_table[value])
    ELSE PanicWith("Unrecognized transfer characteristics")

print_x265_transfer_characteristics_table ==
    1 :> "bt709" @@
    2 :> "unknown" @@
    4 :> "bt470m" @@
    5 :> "bt470bg" @@
    6 :> "smpte170m" @@
    7 :> "smpte240m" @@
    8 :> "linear" @@
    9 :> "log100" @@
    10 :> "log316" @@
    11 :> "iec61966-2-4" @@
    13 :> "iec61966-2-1" @@
    14 :> "bt2020-10" @@
    15 :> "bt2020-12" @@
    16 :> "smpte2084" @@
    18 :> "arib-std-b67"

print_x265_transfer_characteristics(value) ==
    IF value \in DOMAIN print_x265_transfer_characteristics_table THEN Ok(print_x265_transfer_characteristics_table[value])
    ELSE PanicWith("Unrecognized transfer characteristics")

print_rav1e_transfer_characteristics_table ==
    1 :> "BT709" @@
    2 :> "Unspecified" @@
    4 :> "BT470M" @@
    5 :> "BT470BG" @@
    6 :> "BT601" @@
    7 :> "SMPTE240" @@
    8 :> "Linear" @@
    9 :> "Log100" @@
    10 :> "Log100Sqrt10" @@
    11 :> "IEC61966" @@
    13 :> "SRGB" @@
    14 :> "BT2020_10Bit" @@
    15 :> "BT2020_12Bit" @@
    16 :> "SMPTE2084"

print_rav1e_transfer_characteristics(value) ==
    IF value = 18 THEN PanicWith("ARIB B67 not supported by rav1e") ELSE
    IF value \in DOMAIN print_rav1e_transfer_characteristics_table THEN Ok(print_rav1e_transfer_characteristics_table[value])
    ELSE PanicWith("Unrecognized transfer characteristics")

print_color_primaries_table ==
    1 :> "BT.709" @@
    2 :> "Unspecified" @@
    4 :> "BT.470 M" @@
    5 :> "BT.470 BG" @@
    6 :> "SMPTE 170m/BT.601" @@
    7 :> "SMPTE 240m" @@
    8 :> "Film" @@
    9 :> "BT.2020" @@
    10 :> "SMPTE 428" @@
    11 :> "SMPTE 431.2" @@
    12 :> "SMPTE 432.1" @@
    22 :> "EBU 3213 E"

\* Variant for comparison: the number of the code instead of its label.
print_color_primaries_code(value) == Ok(ToString(value))

print_color_primaries(value) ==
    IF value \in DOMAIN print_color_primaries_table THEN Ok(print_color_primaries_table[value])
    ELSE PanicWith("Unrecognized color primaries")

print_x265_color_primaries_table ==
    1 :> "bt709" @@
    2 :> "unknown" @@
    4 :> "bt470m" @@
    5 :> "bt470bg" @@
    6 :> "smpte170m" @@
    7 :> "smpte240m" @@
    8 :> "film" @@
    9 :> "bt2020" @@
    10 :> "smpte428" @@
    11 :> "smpte431" @@
    12 :> "smpte432"

print_x265_color_primaries(value) ==
    IF value = 22 THEN PanicWith("EBU 3213 E not supported by x265") ELSE
    IF value \in DOMAIN print_x265_color_primaries_table THEN Ok(print_x265_color_primaries_table[value])
    ELSE PanicWith("Unrecognized color primaries")

print_rav1e_color_primaries_table ==
    1 :> "BT709" @@
    2 :> "Unspecified" @@
    4 :> "BT470M" @@
    5 :> "BT470BG" @@
    6 :> "BT601" @@
    7 :> "SMPTE240" @@
    8 :> "GenericFilm" @@
    9 :> "BT2020" @@
    10 :> "XYZ" @@
    11 :> "SMPTE431" @@
    12 :> "SMPTE432" @@
    22 :> "EBU3213"

print_rav1e_color_primaries(value) ==
    IF value \in DOMAIN print_rav1e_color_primaries_table THEN Ok(print_rav1e_color_primaries_table[value])
    ELSE PanicWith("Unrecognized color primaries")

\* print_x265_chroma_location is imported by metadata.rs from values.rs, whose
\* definition of it is not part of the sources at hand: the token is taken to
\* be the chroma sample location type x265 numbers 0 to 5.  No property
\* checked here depends on the tokens.
print_x265_chroma_location_table ==
    "Left" :> "0" @@ "Center" :> "1" @@ "TopLeft" :> "2" @@ "Top" :> "3" @@
    "BottomLeft" :> "4" @@ "Bottom" :> "5"

print_x265_chroma_location(value) == Ok(print_x265_chroma_location_table[value])

\* impl Display for ChromaLocation
ChromaLocation_fmt ==
    "Left" :> "Left" @@ "Center" :> "Center" @@ "TopLeft" :> "Top-Left" @@
    "Top" :> "Top" @@ "BottomLeft" :> "Bottom-Left" @@ "Bottom" :> "Bottom"

(***************************************************************************)
(* The serializers of metadata.rs.  Each gives the lines it prints and how *)
(* it ends: Ok, or the panic that stopped it.                               *)
(***************************************************************************)
Printout(lines, end) == [lines |-> lines, end |-> end]

\* the arguments of a format! are evaluated in order: the first panic wins
RECURSIVE first_panic(_)
first_panic(rs) ==
    IF rs = <<>> THEN Ok(<<>>)
    ELSE IF Head(rs).kind = "Panic" THEN Head(rs)
    ELSE first_panic(Tail(rs))

\* Option::unwrap of None
unwrap_none == PanicWith("called Option::unwrap() on a None value")

\* x.round() as u32 of a value that is not negative: half way goes up
round_u32(r) == (2 * r[1] + r[2]) \div (2 * r[2])

\* x * factor, as a rational
rat_scale(r, factor) == Rat(r[1] * factor, r[2])

\* the number of decimals of a value with a finite decimal expansion
RECURSIVE decimals(_, _)
decimals(r, k) ==
    IF scaled_div(r[1], r[2], k)[2] = 0 THEN k ELSE decimals(r, k + 1)

\* format!("{}", x) of an f64 whose shortest decimal is the value itself
fmt_display(r) ==
    IF decimals(r, 0) = 0 THEN ToString(r[1] \div r[2])
    ELSE fmt_fixed(r, decimals(r, 0))

(***************************************************************************)
(* Multiplication in u32.  A product is held as <<q, r>>, the number        *)
(* q * 10000 + r, since it can go beyond the integers of the checker.      *)
(***************************************************************************)
\* u32::MAX
U32_MAX_pair ==
    <<digits_value(SubSeq(U32_MAX, 1, 6)), digits_value(SubSeq(U32_MAX, 7, 10))>>

pair_le(x, y) == x[1] < y[1] \/ (x[1] = y[1] /\ x[2] <= y[2])

pair_sub(x, y) ==
    IF x[2] >= y[2] THEN <<x[1] - y[1], x[2] - y[2]>>
    ELSE <<x[1] - y[1] - 1, x[2] + 10000 - y[2]>>

pair_str(x) ==
    IF x[1] = 0 THEN ToString(x[2])
    ELSE ToString(x[1]) \o pad_zeros(ToString(x[2]), 4)

\* n * 2^32
pair_wraps(n) ==
    LET r == n * (U32_MAX_pair[2] + 1)
    IN  <<n * U32_MAX_pair[1] + r \div 10000, r % 10000>>

\* a * factor for u32 operands, the factor a multiple of 10000, in decimal
\* digits: a product beyond u32::MAX panics in a build with overflow checks and
\* is reduced modulo 2^32 in a build without them
mul_u32(a, factor, overflow_checks) ==
    LET x == <<a * (factor \div 10000), 0>>
        n_hi == x[1] \div U32_MAX_pair[1]
        n == IF pair_le(pair_wraps(n_hi), x) THEN n_hi ELSE n_hi - 1
    IN  IF pair_le(x, U32_MAX_pair) THEN Ok(pair_str(x))
        ELSE IF overflow_checks THEN PanicWith("attempt to multiply with overflow")
        ELSE Ok(pair_str(pair_sub(x, pair_wraps(n))))

format_master_display(coords, max_luma, min_luma, overflow_checks) ==
    LET L == mul_u32(max_luma, 10000, overflow_checks) IN
    IF L.kind = "Panic" THEN L ELSE
    Ok("G(" \o ToString(round_u32(rat_scale(coords.green[1], CoordScale)))
    \o "," \o ToString(round_u32(rat_scale(coords.green[2], CoordScale)))
    \o ")B(" \o ToString(round_u32(rat_scale(coords.blue[1], CoordScale)))
    \o "," \o ToString(round_u32(rat_scale(coords.blue[2], CoordScale)))
    \o ")R(" \o ToString(round_u32(rat_scale(coords.red[1], CoordScale)))
    \o "," \o ToString(round_u32(rat_scale(coords.red[2], CoordScale)))
    \o ")WP(" \o ToString(round_u32(rat_scale(coords.white[1], CoordScale)))
    \o "," \o ToString(round_u32(rat_scale(coords.white[2], CoordScale)))
    \o ")L(" \o L.val
    \o "," \o ToString(round_u32(rat_scale(min_luma, 10000))) \o ")")

human_readable_basic(basic) ==
    LET range == print_color_range(basic.range)
        primaries == print_color_primaries(basic.primaries)
        transfer == print_transfer_characteristics(basic.transfer)
        matrix == print_matrix_coefficients(basic.matrix)
    IN  IF range.kind = "Panic" THEN Printout(<<>>, range)
        ELSE IF primaries.kind = "Panic"
        THEN Printout(<<"Color Range: " \o range.val>>, primaries)
        ELSE IF transfer.kind = "Panic"
        THEN Printout(<<"Color Range: " \o range.val,
                        "Color Primaries: " \o primaries.val>>, transfer)
        ELSE IF matrix.kind = "Panic"
        THEN Printout(<<"Color Range: " \o range.val,
                        "Color Primaries: " \o primaries.val,
                        "Transfer Characteristics: " \o transfer.val>>, matrix)
        ELSE Printout(<<"Color Range: " \o range.val,
                        "Color Primaries: " \o primaries.val,
                        "Transfer Characteristics: " \o transfer.val,
                        "Matrix Coefficients: " \o matrix.val,
                        "Chroma Position: " \o ChromaLocation_fmt[basic.chroma_location]>>,
                      Ok(<<>>))

human_readable_coords(c) ==
    <<"Red Coordinates: " \o fmt_fixed(c.red[1], 5) \o ", " \o fmt_fixed(c.red[2], 5),
      "Green Coordinates: " \o fmt_fixed(c.green[1], 5) \o ", " \o fmt_fixed(c.green[2], 5),
      "Blue Coordinates: " \o fmt_fixed(c.blue[1], 5) \o ", " \o fmt_fixed(c.blue[2], 5),
      "White Point Coordinates: " \o fmt_fixed(c.white[1], 5) \o ", "
          \o fmt_fixed(c.white[2], 5)>>

human_readable_hdr(hdr_data) ==
    <<"Max Content Light Level: " \o ToString(hdr_data.max_content_light),
      "Max Frame-Average Light Level: " \o ToString(hdr_data.max_frame_light),
      "Maximum Luminance: " \o ToString(hdr_data.max_luma),
      "Minimum Luminance: " \o fmt_display(hdr_data.min_luma)>>
    \o (IF is_some(hdr_data.color_coords)
        THEN human_readable_coords(hdr_data.color_coords.val)
        ELSE <<>>)

print_human_readable_format(self) ==
    LET b == IF is_some(self.basic) THEN human_readable_basic(self.basic.val)
             ELSE Printout(<<>>, Ok(<<>>))
    IN  IF b.end.kind = "Panic" THEN b
        ELSE Printout(b.lines \o (IF is_some(self.hdr)
                                  THEN human_readable_hdr(self.hdr.val) ELSE <<>>),
                      Ok(<<>>))

x265_basic_args(basic) ==
    LET tokens == <<print_x265_color_range(basic.range),
                    print_x265_color_primaries(basic.primaries),
                    print_x265_transfer_characteristics(basic.transfer),
                    print_x265_matrix_coefficients(basic.matrix),
                    print_x265_chroma_location(basic.chroma_location)>>
    IN  IF first_panic(tokens).kind = "Panic" THEN first_panic(tokens)
        ELSE Ok("--range " \o tokens[1].val \o " --colorprim " \o tokens[2].val
                \o " --transfer " \o tokens[3].val \o " --colormatrix " \o tokens[4].val
                \o " --chromaloc " \o tokens[5].val)

x265_hdr_args(hdr_data, overflow_checks) ==
    LET mastering ==
            format_master_display(hdr_data.color_coords.val, hdr_data.max_luma,
                                  hdr_data.min_luma, overflow_checks)
    IN
    IF ~is_some(hdr_data.color_coords) THEN unwrap_none
    ELSE IF mastering.kind = "Panic" THEN mastering
    ELSE Ok(" "
            \o (IF hdr_data.max_luma > 0
                THEN "--max-luma " \o ToString(hdr_data.max_luma) \o " " ELSE "")
            \o (IF hdr_data.min_luma[1] > 0
                THEN "--min-luma " \o ToString(round_u32(hdr_data.min_luma)) \o " "
                ELSE "")
            \o "--max-cll " \o ToString(hdr_data.max_content_light)
            \o "," \o ToString(hdr_data.max_frame_light)
            \o " --master-display " \o mastering.val)

\* println!("{}{}", basic part, hdr part): nothing is printed unless both parts
\* were formatted
args_line(b, h) ==
    IF b.kind = "Panic" THEN Printout(<<>>, b)
    ELSE IF h.kind = "Panic" THEN Printout(<<>>, h)
    ELSE Printout(<<b.val \o h.val>>, Ok(<<>>))

print_x265_args(self, overflow_checks) ==
    args_line(IF is_some(self.basic) THEN x265_basic_args(self.basic.val) ELSE Ok(""),
              IF is_some(self.hdr) THEN x265_hdr_args(self.hdr.val, overflow_checks)
              ELSE Ok(""))

rav1e_basic_args(basic) ==
    LET tokens == <<print_rav1e_color_range(basic.range),
                    print_rav1e_color_primaries(basic.primaries),
                    print_rav1e_transfer_characteristics(basic.transfer),
                    print_rav1e_matrix_coefficients(basic.matrix)>>
    IN  IF first_panic(tokens).kind = "Panic" THEN first_panic(tokens)
        ELSE Ok("--range " \o tokens[1].val \o " --primaries " \o tokens[2].val
                \o " --transfer " \o tokens[3].val \o " --matrix " \o tokens[4].val)

rav1e_hdr_args(hdr_data, overflow_checks) ==
    LET mastering ==
            format_master_display(hdr_data.color_coords.val, hdr_data.max_luma,
                                  hdr_data.min_luma, overflow_checks)
    IN
    IF ~is_some(hdr_data.color_coords) THEN unwrap_none
    ELSE IF mastering.kind = "Panic" THEN mastering
    ELSE Ok(" --content-light " \o ToString(hdr_data.max_content_light)
            \o "," \o ToString(hdr_data.max_frame_light)
            \o " --mastering-display " \o mastering.val)

print_rav1e_args(self, overflow_checks) ==
    args_line(IF is_some(self.basic) THEN rav1e_basic_args(self.basic.val) ELSE Ok(""),
              IF is_some(self.hdr) THEN rav1e_hdr_args(self.hdr.val, overflow_checks)
              ELSE Ok(""))

\* the hdr part of print_svtav1_args: the coordinates and the luminances are
\* formatted with {} as they are stored
svtav1_hdr_args(hdr_data) ==
    IF ~is_some(hdr_data.color_coords) THEN unwrap_none
    ELSE LET c == hdr_data.color_coords.val
         IN  Ok(" --content-light " \o ToString(hdr_data.max_content_light)
                \o "," \o ToString(hdr_data.max_frame_light)
                \o " --mastering-display G(" \o fmt_display(c.green[1])
                \o "," \o fmt_display(c.green[2])
                \o ")B(" \o fmt_display(c.blue[1]) \o "," \o fmt_display(c.blue[2])
                \o ")R(" \o fmt_display(c.red[1]) \o "," \o fmt_display(c.red[2])
                \o ")WP(" \o fmt_display(c.white[1]) \o "," \o fmt_display(c.white[2])
                \o ")L(" \o ToString(hdr_data.max_luma)
                \o "," \o fmt_display(hdr_data.min_luma) \o ")")

\* print_svtav1_args of a record without a basic section (the svt-av1
\* dictionaries of the basic part are not part of the sources)
print_svtav1_args(self) ==
    args_line(Ok(""),
              IF is_some(self.hdr) THEN svtav1_hdr_args(self.hdr.val) ELSE Ok(""))

(***************************************************************************)
(* The serializers of the earlier revision (src/src/metadata.rs): basic is *)
(* not optional there, and the luminances are scaled by 50000.             *)
(***************************************************************************)
legacy_format_master_display(coords, max_luma, min_luma, overflow_checks) ==
    LET L == mul_u32(max_luma, 50000, overflow_checks) IN
    IF L.kind = "Panic" THEN L ELSE
    Ok("G(" \o ToString(round_u32(rat_scale(coords.green[1], CoordScale)))
    \o "," \o ToString(round_u32(rat_scale(coords.green[2], CoordScale)))
    \o ")B(" \o ToString(round_u32(rat_scale(coords.blue[1], CoordScale)))
    \o "," \o ToString(round_u32(rat_scale(coords.blue[2], CoordScale)))
    \o ")R(" \o ToString(round_u32(rat_scale(coords.red[1], CoordScale)))
    \o "," \o ToString(round_u32(rat_scale(coords.red[2], CoordScale)))
    \o ")WP(" \o ToString(round_u32(rat_scale(coords.white[1], CoordScale)))
    \o "," \o ToString(round_u32(rat_scale(coords.white[2], CoordScale)))
    \o ")L(" \o L.val
    \o "," \o ToString(round_u32(rat_scale(min_luma, 50000))) \o ")")

legacy_x265_basic_args(basic) ==
    LET tokens == <<print_x265_color_range(basic.range),
                    print_x265_color_primaries(basic.primaries),
                    print_x265_transfer_characteristics(basic.transfer),
                    print_x265_matrix_coefficients(basic.matrix)>>
    IN  IF first_panic(tokens).kind = "Panic" THEN first_panic(tokens)
        ELSE Ok("--range " \o tokens[1].val \o " --colorprim " \o tokens[2].val
                \o " --transfer " \o tokens[3].val \o " --colormatrix " \o tokens[4].val)

legacy_x265_hdr_args(hdr_data, overflow_checks) ==
    LET mastering ==
            legacy_format_master_display(hdr_data.color_coords.val, hdr_data.max_luma,
                                         hdr_data.min_luma, overflow_checks)
    IN
    IF ~is_some(hdr_data.color_coords) THEN unwrap_none
    ELSE IF mastering.kind = "Panic" THEN mastering
    ELSE Ok(" --max-luma " \o ToString(hdr_data.max_luma)
            \o " --min-luma " \o fmt_fixed(hdr_data.min_luma, 4)
            \o " --max-cll " \o ToString(hdr_data.max_content_light)
            \o "," \o ToString(hdr_data.max_frame_light)
            \o " --master-display " \o mastering.val)

legacy_print_x265_args(self, overflow_checks) ==
    args_line(legacy_x265_basic_args(self.basic.val),
              IF is_some(self.hdr) THEN legacy_x265_hdr_args(self.hdr.val, overflow_checks)
              ELSE Ok(""))

legacy_rav1e_hdr_args(hdr_data, overflow_checks) ==
    LET mastering ==
            legacy_format_master_display(hdr_data.color_coords.val, hdr_data.max_luma,
                                         hdr_data.min_luma, overflow_checks)
    IN
    IF ~is_some(hdr_data.color_coords) THEN unwrap_none
    ELSE IF mastering.kind = "Panic" THEN mastering
    ELSE Ok(" --content-light " \o ToString(hdr_data.max_content_light)
            \o "," \o ToString(hdr_data.max_frame_light)
            \o mastering.val)

legacy_print_rav1e_args(self, overflow_checks) ==
    args_line(rav1e_basic_args(self.basic.val),
              IF is_some(self.hdr) THEN legacy_rav1e_hdr_args(self.hdr.val, overflow_checks)
              ELSE Ok(""))

\* the message a panic writes to the diagnostic stream
panic_line(msg) == "panicked: " \o msg


(***************************************************************************)
(* SpecOut: a Metadata value, parsed or restored, is applied to a target   *)
(* and printed in the mkvmerge format.                                     *)
(***************************************************************************)
OutBasicSet ==
    {[matrix |-> c[1], transfer |-> c[2], primaries |-> c[3], range |-> r,
      chroma_location |-> loc] :
        c \in {<<2, 2, 2>>, <<9, 16, 9>>, <<2, 16, 1>>}, r \in {0, 1},
        loc \in ChromaLocation}
    \cup
    {[matrix |-> c[1], transfer |-> c[2], primaries |-> c[3], range |-> 1,
      chroma_location |-> "Left"] :
        c \in {<<0, 16, 9>>, <<9, 18, 9>>, <<9, 16, 22>>, <<3, 16, 9>>, <<9, 2, 2>>}}

\* the largest max_luma whose product by 10000 is a u32, and the next one
LargeLumas == {U32_MAX_pair[1], U32_MAX_pair[1] + 1}

LargeLumaSet ==
    [color_coords : {Some(SampleCoords)}, max_luma : LargeLumas,
     min_luma : {Rat(50, 10000)}, max_content_light : {0}, max_frame_light : {0}]

\* the HDR records of the reconciler, records whose luminances and content
\* light are 0 while the frame light is not, and records of a large max_luma
OutHdrSet ==
    HdrSet \cup [color_coords : {None, Some(SampleCoords)}, max_luma : {0},
                 min_luma : {RatZero}, max_content_light : {0},
                 max_frame_light : {143}]
           \cup LargeLumaSet

OutMetadataSet == [basic : OptionOf(OutBasicSet), hdr : OptionOf(OutHdrSet)]

Targets == {"out.mkv"}

ChapterFiles == {None, Some("in.hdrcp_chapters.xml")}

InitOut ==
    /\ pc = "done"
    /\ aText = NoText /\ bText = NoText /\ cText = NoText
    /\ aOut = NoResult /\ bOut = NoResult /\ cOut = NoResult
    /\ data \in OutMetadataSet
    /\ calls = <<>>
    /\ result = Ok(data)
    /\ arg = NoCall /\ ret = NoResult
    /\ spawned = <<>> /\ stdout = <<>> /\ printed = NotPrinted
    /\ stderr = <<>> /\ exit = Running

Metadata_apply(target, chapters, status) ==
    /\ pc = "done" /\ result.kind = "Ok"
    /\ exit = Running
    /\ spawned = <<>>
    /\ \E command \in {build_mkvmerge_command(result.val, target, chapters)} :
           /\ spawned' = Append(spawned, [argv |-> command, status |-> status])
           /\ stderr' = Append(stderr, "Running: " \o Command_debug(command))
    /\ arg' = [fn |-> "apply", target |-> target, chapters |-> chapters]
    /\ ret' = IF status = "success" THEN Ok(<<>>) ELSE Err
    /\ UNCHANGED <<parse_vars, stdout, printed, exit>>

Metadata_print_mkvmerge_args ==
    /\ pc = "done" /\ result.kind = "Ok"
    /\ exit = Running
    /\ printed = NotPrinted
    /\ \E line \in {mkvmerge_args_line(result.val)} : stdout' = Append(stdout, line)
    /\ printed' = Printed(Some("mkvmerge"))
    /\ UNCHANGED <<parse_vars, fn_vars, spawned, proc_vars>>

\* Metadata::print(format) for the formats printed by a serializer of the
\* sources: a panic of the serializer ends the process
Metadata_print(format, p) ==
    /\ pc = "done" /\ result.kind = "Ok"
    /\ exit = Running
    /\ printed = NotPrinted
    /\ stdout' = stdout \o p.lines
    /\ stderr' = IF p.end.kind = "Panic" THEN Append(stderr, panic_line(p.end.msg))
                 ELSE stderr
    /\ exit' = IF p.end.kind = "Panic" THEN Panicked ELSE exit
    /\ printed' = Printed(format)
    /\ UNCHANGED <<parse_vars, fn_vars, spawned>>

Metadata_print_human_readable_format ==
    \E p \in {print_human_readable_format(result.val)} : Metadata_print(None, p)

Metadata_print_x265_args ==
    \E overflow_checks \in BOOLEAN :
        \E p \in {print_x265_args(result.val, overflow_checks)} :
            Metadata_print(Some("x265"), p)

Metadata_print_rav1e_args ==
    \E overflow_checks \in BOOLEAN :
        \E p \in {print_rav1e_args(result.val, overflow_checks)} :
            Metadata_print(Some("rav1e"), p)

Metadata_print_svtav1_args ==
    /\ result.kind = "Ok" /\ is_none(result.val.basic)
    /\ \E p \in {print_svtav1_args(result.val)} : Metadata_print(Some("svt-av1"), p)

\* the serializers of the earlier revision, whose record always has a basic
\* section
Legacy_print_x265_args ==
    /\ result.kind = "Ok" /\ is_some(result.val.basic)
    /\ \E overflow_checks \in BOOLEAN :
           \E p \in {legacy_print_x265_args(result.val, overflow_checks)} :
               Metadata_print(Some("x265 (earlier revision)"), p)

Legacy_print_rav1e_args ==
    /\ result.kind = "Ok" /\ is_some(result.val.basic)
    /\ \E overflow_checks \in BOOLEAN :
           \E p \in {legacy_print_rav1e_args(result.val, overflow_checks)} :
               Metadata_print(Some("rav1e (earlier revision)"), p)

Apply ==
    \E target \in Targets, chapters \in ChapterFiles, status \in {"success", "failure"} :
        Metadata_apply(target, chapters, status)

NextOut ==
    \/ Apply
    \/ Metadata_print_mkvmerge_args
    \/ Metadata_print_human_readable_format
    \/ Metadata_print_x265_args
    \/ Metadata_print_rav1e_args
    \/ Metadata_print_svtav1_args
    \/ Legacy_print_x265_args
    \/ Legacy_print_rav1e_args

SpecOut == InitOut /\ [][NextOut]_vars

(***************************************************************************)
(* Claims about the property-edit command and its dry-run text.            *)
(***************************************************************************)
\* the tokens of a sequence, separated by single spaces
RECURSIVE join(_)
join(tokens) ==
    IF tokens = <<>> THEN ""
    ELSE IF Len(tokens) = 1 THEN tokens[1]
    ELSE tokens[1] \o " " \o join(Tail(tokens))

\* the arguments the spawned tool was given, without the last one, the target
arguments_before_target(argv) == SubSeq(argv, 2, Len(argv) - 1)

\* the record was both applied without chapters and printed
AppliedAndPrinted ==
    /\ spawned # <<>>
    /\ stdout # <<>>
    /\ is_none(arg.chapters)

\* C9: for every Metadata value, the text print_mkvmerge_args prints is the
\* argument sequence apply passes to the property-edit tool (no chapters),
\* without the target token: same assignments, same values, same order.
C9_DryRunIsArgumentSequence ==
    AppliedAndPrinted => stdout[1] = join(arguments_before_target(spawned[1].argv))

C9_ProgramNamePrinted ==
    /\ AppliedAndPrinted
    /\ is_some(result.val.basic)
    /\ is_some(result.val.hdr)
    /\ stdout[1] = "mkvpropedit " \o join(arguments_before_target(spawned[1].argv))

\* the documented (horizontal, vertical) siting of each chroma location
SitingTable ==
    [Left |-> <<1, 2>>, Center |-> <<2, 2>>, TopLeft |-> <<1, 1>>, Top |-> <<2, 1>>,
     BottomLeft |-> <<1, 3>>, Bottom |-> <<2, 3>>]

\* argv has, at i, the assignments of the siting pair
SitingAt(argv, i, pair) ==
    /\ argv[i] = "-s"
    /\ argv[i + 1] = "chroma-siting-horizontal=" \o ToString(pair[1])
    /\ argv[i + 2] = "-s"
    /\ argv[i + 3] = "chroma-siting-vertical=" \o ToString(pair[2])

\* C10: for each of the six chroma locations the command carries the siting
\* pair Left (1,2), Center (2,2), TopLeft (1,1), Top (2,1), BottomLeft (1,3),
\* Bottom (2,3), once; the six pairs are pairwise distinct and none has a 0.
C10_ChromaSiting ==
    /\ \A a, b \in ChromaLocation : a # b => SitingTable[a] # SitingTable[b]
    /\ \A a \in ChromaLocation : SitingTable[a][1] # 0 /\ SitingTable[a][2] # 0
    /\ (spawned # <<>> /\ is_some(result.val.basic)) =>
           LET argv == spawned[1].argv
               pair == SitingTable[result.val.basic.val.chroma_location]
           IN  \E i \in 1 .. (Len(argv) - 3) :
                   /\ SitingAt(argv, i, pair)
                   /\ \A j \in 1 .. Len(argv) :
                          starts_with(argv[j], "chroma-siting-") => j \in {i + 1, i + 3}
    /\ (spawned # <<>> /\ is_none(result.val.basic)) =>
           \A j \in 1 .. Len(spawned[1].argv) :
               ~starts_with(spawned[1].argv[j], "chroma-siting-")

C10_Witness ==
    /\ spawned # <<>>
    /\ is_some(result.val.basic)
    /\ result.val.basic.val.chroma_location = "Bottom"
    /\ \E i \in 1 .. (Len(spawned[1].argv) - 3) : SitingAt(spawned[1].argv, i, <<2, 3>>)

(***************************************************************************)
(* Claims about the serializers (SpecOut).                                 *)
(***************************************************************************)
PrintedAs(format) == printed = Printed(Some(format))

\* the codes the claim names as having no token in an encoder's dialect
Unsupported(format, basic) ==
    \/ format \in {"x265", "rav1e"} /\ basic.matrix = 0
    \/ format = "rav1e" /\ basic.transfer = 18
    \/ format = "x265" /\ basic.primaries = 22

\* C11: an encoder serializer given a code with no token in its dialect prints
\* no argument string at all and ends the process with the "not supported by"
\* error of that dialect; the same record still prints in the formats that
\* have the code (the human-readable report and the mkvmerge line).
C11_UnsupportedByTarget ==
    /\ \A format \in {"x265", "rav1e"} :
           (PrintedAs(format) /\ is_some(data.basic)
               /\ Unsupported(format, data.basic.val))
           => /\ stdout = <<>>
              /\ exit = Panicked
              /\ contains(stderr[Len(stderr)], "not supported by " \o format)
    /\ (printed \in {Printed(None), Printed(Some("mkvmerge"))}
            /\ is_some(data.basic)
            /\ \E format \in {"x265", "rav1e"} : Unsupported(format, data.basic.val))
       => exit = Running /\ stdout # <<>>

C11_Witness ==
    /\ PrintedAs("x265") /\ is_some(data.basic) /\ data.basic.val.matrix = 0
    /\ stdout = <<>> /\ exit = Panicked
    /\ stderr = <<panic_line("RGB not supported by x265")>>

\* the labels that open the lines of the report
BasicLineLabels ==
    {"Color Range: ", "Color Primaries: ", "Transfer Characteristics: ",
     "Matrix Coefficients: ", "Chroma Position: "}

HdrLineLabels ==
    {"Max Content Light Level: ", "Max Frame-Average Light Level: ",
     "Maximum Luminance: ", "Minimum Luminance: ", "Red Coordinates: ",
     "Green Coordinates: ", "Blue Coordinates: ", "White Point Coordinates: "}

Reported(line) == \E i \in DOMAIN stdout : stdout[i] = line

NoLineOf(labels) ==
    \A i \in DOMAIN stdout : \A l \in labels : ~starts_with(stdout[i], l)

\* C12: the human-readable report prints the dictionary label of each basic
\* field (matrix 9 as "BT.2020 Non-Constant Light", transfer 16 as
\* "PQ/SMPTE 2084", primaries 9 as "BT.2020", range 1 as "Limited"), no basic
\* line when basic is absent and no HDR line when hdr is absent.
C12_ReportLabels ==
    printed = Printed(None) =>
        /\ is_some(data.basic) =>
               /\ data.basic.val.matrix = 9
                      => Reported("Matrix Coefficients: BT.2020 Non-Constant Light")
               /\ data.basic.val.transfer = 16
                      => Reported("Transfer Characteristics: PQ/SMPTE 2084")
               /\ data.basic.val.primaries = 9 => Reported("Color Primaries: BT.2020")
               /\ data.basic.val.range = 1 => Reported("Color Range: Limited")
        /\ ~is_some(data.basic) => NoLineOf(BasicLineLabels)
        /\ ~is_some(data.hdr) => NoLineOf(HdrLineLabels)

C12_Witness ==
    /\ printed = Printed(None)
    /\ is_some(data.basic) /\ ~is_some(data.hdr)
    /\ data.basic.val.matrix = 9 /\ data.basic.val.transfer = 16
    /\ data.basic.val.primaries = 9 /\ data.basic.val.range = 1
    /\ Len(stdout) = 5

(***************************************************************************)
(* SpecDict: the dictionaries of values.rs applied one after the other, a  *)
(* printer then the parser of the same axis, or a parser, the printer and  *)
(* the parser again.                                                        *)
(***************************************************************************)
Axes == {"matrix", "transfer", "primaries", "range"}

parse_axis(axis, name) ==
    CASE axis = "matrix" -> parse_matrix_coefficients(name)
      [] axis = "transfer" -> parse_transfer_characteristics(name)
      [] axis = "primaries" -> parse_color_primaries(name)
      [] axis = "range" -> parse_color_range(name)

print_axis(axis, code) ==
    CASE axis = "matrix" -> print_matrix_coefficients(code)
      [] axis = "transfer" -> print_transfer_characteristics(code)
      [] axis = "primaries" -> print_color_primaries(code)
      [] axis = "range" -> print_color_range(code)

\* the codes of the dictionaries go up to 22
Codes == 0 .. 22

\* the names the match arms of the parsers hold, and some of them capitalized
Names ==
    {"limited", "full", "Limited", "Full", "rgb", "RGB", "bt.709", "BT.709",
     "unspecified", "unset", "fcc", "bt.470 m", "bt.470 bg", "BT.470 BG",
     "smpte 170m", "bt.601", "BT.601", "smpte 240m", "ycgco", "YCgCo",
     "bt.2020 non-constant", "BT.2020 non-constant", "bt.2020 constant",
     "linear", "log 100", "log 316", "iec 61966-2-4", "iec 61966-2-1",
     "bt.2020 10-bit", "bt.2020 12-bit", "pq", "PQ", "smpte 2084", "arib b67",
     "HLG", "film", "ntsc", "bt.2020", "BT.2020", "smpte 428", "smpte 431.2",
     "smpte 432.1", "ebu 3213 e", "Display P3"}

PrintParseInputs ==
    {[fn |-> "print_parse", axis |-> axis, code |-> code] :
        axis \in Axes, code \in Codes}

ParsePrintInputs ==
    {[fn |-> "parse_print", axis |-> axis, name |-> name] :
        axis \in Axes, name \in Names}

InitDict ==
    /\ pc = "start"
    /\ aText = NoText /\ bText = NoText /\ cText = NoText
    /\ aOut = NoResult /\ bOut = NoResult /\ cOut = NoResult
    /\ data = Metadata_default
    /\ calls = <<>>
    /\ result = NoResult
    /\ arg \in PrintParseInputs \cup ParsePrintInputs
    /\ ret = NoResult
    /\ spawned = <<>> /\ stdout = <<>> /\ printed = NotPrinted
    /\ stderr = <<>> /\ exit = Running

\* parse(print(code)): the label, and the code its parser gives when there is
\* a label
print_then_parse(axis, code) ==
    LET label == print_axis(axis, code) IN
    [label |-> label,
     code |-> IF label.kind = "Ok" THEN parse_axis(axis, label.val) ELSE NoResult]

\* print(parse(name)) parsed again
parse_then_print(axis, name) ==
    LET code == parse_axis(axis, name)
        label == IF code.kind = "Ok" THEN print_axis(axis, code.val) ELSE NoResult
    IN  [code |-> code, label |-> label,
         back |-> IF label.kind = "Ok" THEN parse_axis(axis, label.val) ELSE NoResult]

call_print_then_parse ==
    \E a \in PrintParseInputs : \E v \in {print_then_parse(a.axis, a.code)} :
        /\ arg = a
        /\ ret = NoResult
        /\ ret' = v
        /\ UNCHANGED <<parse_vars, arg, out_vars, proc_vars>>

call_parse_then_print ==
    \E a \in ParsePrintInputs : \E v \in {parse_then_print(a.axis, a.name)} :
        /\ arg = a
        /\ ret = NoResult
        /\ ret' = v
        /\ UNCHANGED <<parse_vars, arg, out_vars, proc_vars>>

NextDict ==
    \/ call_print_then_parse
    \/ call_parse_then_print

SpecDict == InitDict /\ [][NextDict]_vars

\* C13: on each axis the name -> code parser and the code -> label printer are
\* exact inverses: parse(print(c)) = c for every code the printer accepts, and
\* print(parse(n)) parses back to the same code for every name the parser
\* accepts.
C13_ExactInverses ==
    /\ (arg.fn = "print_parse" /\ ret # NoResult /\ ret.label.kind = "Ok")
           => ret.code = Ok(arg.code)
    /\ (arg.fn = "parse_print" /\ ret # NoResult /\ ret.code.kind = "Ok")
           => ret.back = ret.code

\* the label of matrix 9 is not a name of the matrix parser
C13_LabelNotParsed ==
    /\ arg = [fn |-> "print_parse", axis |-> "matrix", code |-> 9]
    /\ ret # NoResult
    /\ ret.label = Ok("BT.2020 Non-Constant Light")
    /\ ret.code = Panic

(***************************************************************************)
(* Claims about malformed and unrecognized values.                         *)
(***************************************************************************)
\* C14 (SpecFn): a matched line whose value cannot be parsed leaves that field
\* at its default and keeps the other fields: the parser returns what it
\* returns for the same text without the line.
C14_MalformedFieldKeepsDefault ==
    /\ (arg.fn = "parse_mkvinfo" /\ arg.input = MkvinfoMalformedText
            /\ ret # NoResult)
       => ret = parse_mkvinfo(Stdout(MkvinfoBasicLines))
    /\ (arg.fn = "parse_mediainfo" /\ arg.input = MediainfoMalformedText
            /\ ret # NoResult)
       => ret = parse_mediainfo(Stdout(MediainfoBasicLines))

\* the parser returns the error of the value instead, and no field at all
C14_WholeRecordLost ==
    /\ arg.fn = "parse_mkvinfo" /\ arg.input = MkvinfoMalformedText
    /\ ret = Err
    /\ parse_mkvinfo(Stdout(MkvinfoBasicLines)).kind = "Ok"

\* the codes of the fixed enumeration of each field
Enumerated(basic) ==
    /\ basic.matrix \in DOMAIN print_matrix_coefficients_table
    /\ basic.transfer \in DOMAIN print_transfer_characteristics_table
    /\ basic.primaries \in DOMAIN print_color_primaries_table
    /\ basic.range \in DOMAIN print_color_range_table

\* C15 (SpecFn): a value outside the dictionary, a name from the stream-header
\* probe or a number from the container probe, is fatal, so a record a parser
\* returns carries only codes of the fixed enumeration.
C15_OnlyEnumeratedCodes ==
    /\ (arg.fn \in {"parse_mkvinfo", "parse_mediainfo"} /\ ret # NoResult
            /\ ret.kind = "Ok")
       => Enumerated(ret.val.basic)
    /\ (arg.fn = "parse_mkvinfo" /\ arg.input = MkvinfoUnrecognizedText
            /\ ret # NoResult)
       => ret.kind # "Ok"
    /\ (arg.fn = "parse_mediainfo" /\ arg.input = MediainfoUnrecognizedText
            /\ ret # NoResult)
       => ret.kind # "Ok"

\* the number 3 of the container probe is returned as the matrix
C15_UnrecognizedCodeReturned ==
    /\ arg.fn = "parse_mkvinfo" /\ arg.input = MkvinfoUnrecognizedText
    /\ ret # NoResult /\ ret.kind = "Ok"
    /\ ret.val.basic.matrix = 3

(***************************************************************************)
(* SpecCopy: the copy operation of lib.rs.  It checks its two files, runs  *)
(* Metadata::parse on the input, and applies the record to the target.  The *)
(* process runs on: once Metadata::parse returned its error, the error is  *)
(* printed and the process exits.                                          *)
(***************************************************************************)
InitCopy ==
    /\ pc = "copy"
    /\ aText = NoText /\ bText = NoText /\ cText = NoText
    /\ aOut = NoResult /\ bOut = NoResult /\ cOut = NoResult
    /\ data = Metadata_default
    /\ calls = <<>>
    /\ result = NoResult
    /\ arg = NoCall /\ ret = NoResult
    /\ spawned = <<>> /\ stdout = <<>> /\ printed = NotPrinted
    /\ stderr = <<>> /\ exit = Running

\* the is_file tests of the input and of the target
copy_check_files(input_is_file, target_is_file) ==
    /\ pc = "copy"
    /\ IF ~input_is_file
       THEN /\ stderr' = Append(stderr, "Input file does not exist")
            /\ exit' = Exited(1)
            /\ pc' = "exited"
       ELSE IF ~target_is_file
       THEN /\ stderr' = Append(stderr, "Target file does not exist")
            /\ exit' = Exited(1)
            /\ pc' = "exited"
       ELSE /\ pc' = "start"
            /\ UNCHANGED proc_vars
    /\ UNCHANGED <<texts, outs, data, calls, result, fn_vars, out_vars>>

CheckFiles ==
    \E input_is_file \in BOOLEAN, target_is_file \in BOOLEAN :
        copy_check_files(input_is_file, target_is_file)

\* Variant for comparison: a failed Metadata::parse is passed over and the
\* record read so far is applied.
copy_parse_error_ignored ==
    /\ pc = "failed" /\ result = Err
    /\ exit = Running
    /\ pc' = "done"
    /\ result' = Ok(data)
    /\ stderr' = Append(stderr, "Unable to parse metadata")
    /\ UNCHANGED <<texts, outs, data, calls, fn_vars, out_vars, exit>>

\* Err(e) of Metadata::parse: eprintln!("{}", e); exit(1)
copy_parse_error ==
    /\ pc = "failed" /\ result = Err
    /\ exit = Running
    /\ stderr' = Append(stderr, "Unable to parse metadata")
    /\ exit' = Exited(1)
    /\ UNCHANGED <<parse_vars, fn_vars, out_vars>>

\* metadata.apply(&target, chapters), then the error and exit(1), or "Done!"
copy_apply(target, chapters, status) ==
    /\ pc = "done" /\ result.kind = "Ok"
    /\ exit = Running
    /\ spawned = <<>>
    /\ \E command \in {build_mkvmerge_command(result.val, target, chapters)} :
           /\ spawned' = Append(spawned, [argv |-> command, status |-> status])
           /\ stderr' = stderr
                  \o <<"Running: " \o Command_debug(command),
                       IF status = "success" THEN "Done!" ELSE "Failed to mux metadata">>
    /\ arg' = [fn |-> "apply", target |-> target, chapters |-> chapters]
    /\ ret' = IF status = "success" THEN Ok(<<>>) ELSE Err
    /\ exit' = IF status = "success" THEN Exited(0) ELSE Exited(1)
    /\ UNCHANGED <<parse_vars, stdout, printed>>

CopyApply ==
    \E target \in Targets, chapters \in ChapterFiles, status \in {"success", "failure"} :
        copy_apply(target, chapters, status)

NextCopy ==
    \/ CheckFiles
    \/ InvokeMkvinfo
    \/ InvokeMediainfo
    \/ InvokeFfprobe
    \/ copy_parse_error
    \/ CopyApply

SpecCopy == InitCopy /\ [][NextCopy]_vars /\ WF_vars(copy_parse_error)

\* Metadata::parse did not return a record: source B failed, or a parser panicked
ReconciliationFailed ==
    \/ bOut.kind = "Err"
    \/ aOut.kind = "Panic" \/ bOut.kind = "Panic" \/ cOut.kind = "Panic"

ToolFailed == spawned # <<>> /\ spawned[1].status # "success"

NonzeroExit == exit = Panicked \/ (exit.kind = "Exited" /\ exit.code # 0)

DoneReported == \E i \in DOMAIN stderr : stderr[i] = "Done!"

C16_Order ==
    /\ spawned # <<>> => (pc = "done" /\ result.kind = "Ok" /\ ~ReconciliationFailed)
    /\ ReconciliationFailed => spawned = <<>>
    /\ (ReconciliationFailed \/ ToolFailed) => ~DoneReported
    /\ ((ReconciliationFailed \/ ToolFailed) /\ exit # Running) => NonzeroExit

\* C16: in copy the property-edit tool is invoked only after reconciliation
\* succeeded and never when it failed; when reconciliation fails or the tool
\* exits nonzero the process ends with a nonzero exit and never reports "Done!".
C16_ApplyAfterReconciliation ==
    /\ []C16_Order
    /\ [](ReconciliationFailed \/ ToolFailed => <>NonzeroExit)

C16_Witness ==
    /\ bOut.kind = "Err" /\ pc = "failed"
    /\ spawned = <<>>
    /\ exit = Exited(1)
    /\ ~DoneReported

(***************************************************************************)
(* Claims about the merges and the order of the probes (Spec).             *)
(***************************************************************************)
\* C17: when source B succeeds, its basic is installed only if the working
\* basic is absent, its hdr, when present, replaces the working hdr as a whole,
\* and when its hdr is absent the working hdr is unchanged.
C17_MergeOfB ==
    [][(pc = "invokeB" /\ bOut'.kind = "Ok") =>
          /\ data'.basic = IF is_some(data.basic) THEN data.basic ELSE bOut'.val.basic
          /\ data'.hdr = IF is_some(bOut'.val.hdr) THEN bOut'.val.hdr ELSE data.hdr]_vars

C17_Witness ==
    /\ calls = <<"A", "B">>
    /\ aOut.kind = "Ok" /\ bOut.kind = "Ok"
    /\ is_some(aOut.val.basic) /\ is_some(bOut.val.basic)
    /\ aOut.val.basic # bOut.val.basic
    /\ is_some(aOut.val.hdr) /\ is_some(bOut.val.hdr)
    /\ aOut.val.hdr # bOut.val.hdr
    /\ data = [basic |-> aOut.val.basic, hdr |-> bOut.val.hdr]

\* source B returned a record and source C was not invoked yet
AfterB == calls = <<"A", "B">> /\ bOut.kind = "Ok"

\* C18 as stated: after source B Metadata::parse returns without invoking
\* source C exactly when basic, hdr and hdr.color_coords are all populated.
C18_StopAfterBThreePart ==
    AfterB => /\ pc = "done" <=> Complete(data)
              /\ pc = "invokeC" <=> ~Complete(data)

\* C18: after source B Metadata::parse returns without invoking source C
\* exactly when hdr and hdr.color_coords are populated, whether or not basic
\* is, and goes on to source C in every other case.
C18_StopAfterBOnHdr ==
    AfterB =>
        /\ pc = "done" <=> (is_some(data.hdr) /\ is_some(data.hdr.val.color_coords))
        /\ pc = "invokeC" <=> ~(is_some(data.hdr) /\ is_some(data.hdr.val.color_coords))
        /\ pc = "done" => result = Ok(data)

C18_Witness ==
    /\ AfterB
    /\ ~is_some(data.basic)
    /\ is_some(data.hdr) /\ is_some(data.hdr.val.color_coords)
    /\ pc = "done" /\ result = Ok(data)

\* C19: source C never changes basic; when it reports HDR side-data the
\* returned hdr is exactly its record, and when it reports none, or fails, the
\* returned hdr is the working hdr after source B.
C19_MergeOfC ==
    [][(pc = "invokeC" /\ pc' = "done") =>
          /\ result'.kind = "Ok"
          /\ result'.val.basic = data.basic
          /\ result'.val.hdr = IF cOut'.kind = "Ok" /\ is_some(cOut'.val)
                               THEN cOut'.val ELSE data.hdr]_vars

C19_Witness ==
    /\ calls = <<"A", "B", "C">>
    /\ bOut.kind = "Ok" /\ is_some(bOut.val.hdr) /\ is_some(bOut.val.basic)
    /\ cOut.kind = "Ok" /\ is_some(cOut.val)
    /\ cOut.val # bOut.val.hdr
    /\ pc = "done"
    /\ result.kind = "Ok" /\ result.val.hdr = cOut.val /\ is_some(result.val.basic)

\* C20: the probes are invoked in the order A, B, C, each at most once and
\* never again, B only after A returned and C only after B returned, and the
\* run ends after at most three invocations.
C20_ProbeOrder ==
    /\ calls \in {<<>>, <<"A">>, <<"A", "B">>, <<"A", "B", "C">>}
    /\ Invoked("A") <=> aOut # NoResult
    /\ Invoked("B") <=> bOut # NoResult
    /\ Invoked("C") <=> cOut # NoResult
    /\ Invoked("C") => bOut.kind = "Ok"
    /\ Len(calls) = 3 => pc \in {"done", "aborted"}

C20_Witness ==
    /\ calls = <<"A", "B", "C">>
    /\ cOut = Err
    /\ pc = "done"

(***************************************************************************)
(* Claims about the HDR section headers (SpecFn).                          *)
(***************************************************************************)
HasLine(probe, pat) ==
    probe.kind = "stdout" /\ \E i \in DOMAIN probe.lines : contains(probe.lines[i], pat)

Returned(fn, input) == arg.fn = fn /\ arg.input = input /\ ret # NoResult

\* C21: a source parser reports hdr = Some if and only if the text holds the
\* header line of the probe's HDR section: HDR numbers without the header give
\* hdr = None, the header alone or over values that are all 0 gives Some.
C21_HdrIffHeader ==
    /\ (arg.fn = "parse_mkvinfo" /\ ret.kind = "Ok")
       => (is_some(ret.val.hdr)
              <=> HasLine(arg.input, "Video colour mastering metadata"))
    /\ (arg.fn = "parse_mediainfo" /\ ret.kind = "Ok")
       => (is_some(ret.val.hdr)
              <=> HasLine(arg.input, "Mastering display color primaries"))
    /\ \A t \in {MkvinfoNumbersText, MkvinfoHeaderText, MkvinfoZerosText} :
           Returned("parse_mkvinfo", t) => ret.kind = "Ok"
    /\ \A t \in {MediainfoNumbersText, MediainfoHeaderText, MediainfoZerosText} :
           Returned("parse_mediainfo", t) => ret.kind = "Ok"
    /\ Returned("parse_mkvinfo", MkvinfoZerosText)
       => (ret.val.hdr.val.max_luma = 0 /\ ret.val.hdr.val.max_content_light = 0)

C21_Witness ==
    /\ Returned("parse_mkvinfo", MkvinfoNumbersText)
    /\ ret.kind = "Ok"
    /\ ret.val.hdr = None

BothSideDataHeaders(probe) ==
    /\ HasLine(probe, "side_data_type=Mastering display metadata")
    /\ HasLine(probe, "side_data_type=Content light level metadata")

\* C22: the frame side-data parser reports HDR data only when both side-data
\* type headers are in the text; when one is missing it reports none, whatever
\* fraction or integer lines the text holds, and the match on its result then
\* leaves every working record as it was.
C22_BothHeaders ==
    (arg.fn = "parse_ffprobe" /\ ret # NoResult /\ arg.input.kind = "stdout") =>
        /\ ~BothSideDataHeaders(arg.input)
           => /\ ret = Ok(None)
              /\ \A d \in MetadataSet : merge_ffprobe(d, ret) = d
        /\ (ret.kind = "Ok" /\ is_some(ret.val)) => BothSideDataHeaders(arg.input)

C22_Witness ==
    /\ Returned("parse_ffprobe", Stdout(FfprobeMasteringLines))
    /\ ret = Ok(None)

(***************************************************************************)
(* Claims about the command builder (SpecOut).                             *)
(***************************************************************************)
Argv == spawned[1].argv

\* .arg("-s").arg(assignment) is part of the command
Emitted(assignment) ==
    \E i \in 2 .. Len(Argv) : Argv[i - 1] = "-s" /\ Argv[i] = assignment

EmittedName(name) ==
    \E i \in 2 .. Len(Argv) : Argv[i - 1] = "-s" /\ starts_with(Argv[i], name \o "=")

BasicPropNames ==
    {"colour-transfer-characteristics", "colour-primaries", "colour-matrix-coefficients",
     "colour-range", "chroma-siting-horizontal", "chroma-siting-vertical"}

\* C23: with basic present, colour-transfer-characteristics, colour-primaries
\* and colour-matrix-coefficients are each emitted if and only if the code of
\* that field is not 2, colour-range and the two chroma-siting assignments are
\* always emitted; with basic absent none of them is emitted.
C23_BasicProps ==
    spawned # <<>> =>
        IF is_some(data.basic)
        THEN LET b == data.basic.val IN
             /\ EmittedName("colour-transfer-characteristics") <=> b.transfer # 2
             /\ EmittedName("colour-primaries") <=> b.primaries # 2
             /\ EmittedName("colour-matrix-coefficients") <=> b.matrix # 2
             /\ b.transfer # 2
                => Emitted("colour-transfer-characteristics=" \o ToString(b.transfer))
             /\ b.primaries # 2 => Emitted("colour-primaries=" \o ToString(b.primaries))
             /\ b.matrix # 2
                => Emitted("colour-matrix-coefficients=" \o ToString(b.matrix))
             /\ EmittedName("colour-range")
             /\ EmittedName("chroma-siting-horizontal")
             /\ EmittedName("chroma-siting-vertical")
        ELSE \A name \in BasicPropNames : ~EmittedName(name)

C23_Witness ==
    /\ spawned # <<>>
    /\ is_some(data.basic)
    /\ data.basic.val.matrix = 9 /\ data.basic.val.transfer = 2
    /\ data.basic.val.primaries = 2
    /\ Emitted("colour-matrix-coefficients=9")
    /\ ~EmittedName("colour-primaries")

\* C24: the colour-range is translated for the property-edit target: range 0
\* (full) is emitted as 2 and range 1 (limited) as 1, and colour-range=0 is
\* never emitted.
C24_RangeTranslated ==
    (spawned # <<>> /\ is_some(data.basic)) =>
        /\ data.basic.val.range = 0 => Emitted("colour-range=2")
        /\ data.basic.val.range = 1 => Emitted("colour-range=1")
        /\ ~Emitted("colour-range=0")

C24_Witness ==
    /\ spawned # <<>> /\ is_some(data.basic)
    /\ data.basic.val.range = 0
    /\ Emitted("colour-range=2")

ChromaticityPropNames ==
    {"chromaticity-coordinates-red-x", "chromaticity-coordinates-red-y",
     "chromaticity-coordinates-green-x", "chromaticity-coordinates-green-y",
     "chromaticity-coordinates-blue-x", "chromaticity-coordinates-blue-y",
     "white-coordinates-x", "white-coordinates-y"}

HdrPropNames ==
    {"max-content-light", "max-frame-light", "max-luminance", "min-luminance"}
    \cup ChromaticityPropNames

\* C25: with hdr present, max-content-light and max-frame-light are each
\* emitted if and only if the value is not 0, max-luminance and min-luminance
\* are always emitted, also when 0, and the eight chromaticity assignments are
\* emitted, all of them, if and only if color_coords is present; with hdr
\* absent no HDR assignment is emitted.
C25_HdrProps ==
    spawned # <<>> =>
        IF is_some(data.hdr)
        THEN LET h == data.hdr.val IN
             /\ EmittedName("max-content-light") <=> h.max_content_light # 0
             /\ EmittedName("max-frame-light") <=> h.max_frame_light # 0
             /\ h.max_content_light # 0
                => Emitted("max-content-light=" \o ToString(h.max_content_light))
             /\ h.max_frame_light # 0
                => Emitted("max-frame-light=" \o ToString(h.max_frame_light))
             /\ Emitted("max-luminance=" \o ToString(h.max_luma))
             /\ EmittedName("min-luminance")
             /\ \A name \in ChromaticityPropNames :
                    EmittedName(name) <=> is_some(h.color_coords)
        ELSE \A name \in HdrPropNames : ~EmittedName(name)

C25_Witness ==
    /\ spawned # <<>> /\ is_some(data.hdr)
    /\ data.hdr.val.max_luma = 0 /\ data.hdr.val.min_luma = RatZero
    /\ data.hdr.val.max_content_light = 0 /\ data.hdr.val.max_frame_light = 143
    /\ ~is_some(data.hdr.val.color_coords)
    /\ Emitted("max-luminance=0") /\ Emitted("min-luminance=0.0000")
    /\ Emitted("max-frame-light=143")

(***************************************************************************)
(* Claims about the encoder serializers.                                   *)
(***************************************************************************)
\* max_luma x 10000 is a u32
MaxLumaScales(self) ==
    is_some(self.hdr) => self.hdr.val.max_luma <= U32_MAX_pair[1]

EncoderFormats ==
    {"x265", "rav1e", "svt-av1", "x265 (earlier revision)", "rav1e (earlier revision)"}

\* the record has an hdr section with coordinates, and a serializer of one of
\* the formats printed its line
PrintedMasterDisplay(formats) ==
    /\ printed.kind = "printed" /\ printed.format \in {Some(f) : f \in formats}
    /\ exit = Running
    /\ is_some(result.val.hdr) /\ is_some(result.val.hdr.val.color_coords)

\* round(value x factor), in decimal digits
ScaledBy(r, factor) == ToString(round_u32(rat_scale(r, factor)))

\* n x 10000, in decimal digits
TimesTenThousand(n) == IF n = 0 THEN "0" ELSE ToString(n) \o "0000"

\* the mastering-display string with the coordinates scaled by 50000 and the
\* luminances by 10000
MasterDisplayOf(hdr) ==
    LET c == hdr.color_coords.val
    IN  "G(" \o ScaledBy(c.green[1], 50000) \o "," \o ScaledBy(c.green[2], 50000)
        \o ")B(" \o ScaledBy(c.blue[1], 50000) \o "," \o ScaledBy(c.blue[2], 50000)
        \o ")R(" \o ScaledBy(c.red[1], 50000) \o "," \o ScaledBy(c.red[2], 50000)
        \o ")WP(" \o ScaledBy(c.white[1], 50000) \o "," \o ScaledBy(c.white[2], 50000)
        \o ")L(" \o TimesTenThousand(hdr.max_luma)
        \o "," \o ScaledBy(hdr.min_luma, 10000) \o ")"

\* C26: every encoder serializer that emits a mastering-display string emits
\* G, B, R, WP, L in that order with integer values, each coordinate as
\* round(value x 50000) and the L pair as max_luma x 10000 and
\* round(min_luma x 10000): the line of every encoder serializer ends with that
\* string.
C26_MasterDisplayScaled ==
    PrintedMasterDisplay(EncoderFormats)
        => ends_with(stdout[Len(stdout)], MasterDisplayOf(result.val.hdr.val))

\* the x265 and rav1e serializers of the core crate do emit that string, for a
\* max_luma whose product is a u32
C26_CoreMasterDisplayScaled ==
    (PrintedMasterDisplay({"x265", "rav1e"}) /\ MaxLumaScales(result.val))
        => ends_with(stdout[Len(stdout)], MasterDisplayOf(result.val.hdr.val))

\* the x265 serializer of the earlier revision printed a maximum luminance of
\* 1000 and a minimum of 0.005 scaled by 50000
C26_Witness ==
    /\ PrintedMasterDisplay({"x265 (earlier revision)"})
    /\ result.val.hdr.val.max_luma = 1000
    /\ result.val.hdr.val.min_luma = Rat(50, 10000)
    /\ ends_with(stdout[Len(stdout)], ")L(50000000,250)")

\* the svt-av1 serializer printed the coordinates and luminances unscaled
C26_SvtAv1Unscaled ==
    /\ PrintedMasterDisplay({"svt-av1"})
    /\ ends_with(stdout[Len(stdout)],
                 "G(0.265,0.68998)B(0.14998,0.05998)R(0.68,0.31998)WP(0.31268,0.329)L(1000,0.005)")

\* the text the serializer wrote to the standard output
PrintedText == IF stdout = <<>> THEN "" ELSE stdout[Len(stdout)]

\* the x265 serializer ran on a record with an hdr section whose basic codes, if
\* any, are in the x265 dictionaries
X265PrintedHdr ==
    /\ PrintedAs("x265")
    /\ is_some(result.val.hdr)
    /\ is_some(result.val.basic) => x265_basic_args(result.val.basic.val).kind = "Ok"

\* the luminance arguments are there exactly when the luminances are positive;
\* the content light and the mastering display are there in both cases
X265LumaArgs ==
    /\ contains(PrintedText, "--max-luma ") <=> result.val.hdr.val.max_luma > 0
    /\ contains(PrintedText, "--min-luma ") <=> result.val.hdr.val.min_luma[1] > 0
    /\ contains(PrintedText, "--max-cll ")
    /\ contains(PrintedText, "--master-display G(")

\* C27: with hdr present the x265 serializer emits --max-luma if and only if
\* max_luma > 0 and --min-luma if and only if min_luma > 0, while --max-cll and
\* --master-display are emitted in both cases.
C27_LumaArgs == X265PrintedHdr => X265LumaArgs

\* the same for the records whose hdr section has coordinates and a max_luma
\* whose product by 10000 is a u32
C27_LumaArgsWithCoords ==
    (X265PrintedHdr /\ is_some(result.val.hdr.val.color_coords)
        /\ MaxLumaScales(result.val)) => X265LumaArgs

\* the x265 serializer printed a record whose luminances are both 0, with
\* coordinates: no luminance argument, content light and mastering display
C27_ZeroLuminancesOmitted ==
    /\ X265PrintedHdr /\ is_some(result.val.hdr.val.color_coords)
    /\ result.val.hdr.val.max_luma = 0 /\ result.val.hdr.val.min_luma = RatZero
    /\ exit = Running
    /\ ~contains(PrintedText, "-luma ")
    /\ contains(PrintedText, " --max-cll 0,143 --master-display G(13250,34499)")

\* the x265 serializer was given an hdr section without coordinates and emitted
\* nothing
C27_NothingEmitted ==
    /\ X265PrintedHdr /\ is_none(result.val.hdr.val.color_coords)
    /\ result.val.hdr.val.max_luma = 1000
    /\ stdout = <<>> /\ exit = Panicked

(***************************************************************************)
(* Claims about what the reconciler keeps (Spec).                          *)
(***************************************************************************)
\* the record has an hdr section with coordinates
HasCoords(d) == is_some(d.hdr) /\ is_some(d.hdr.val.color_coords)

\* C28: completeness never decreases during reconciliation: once the working
\* record has hdr.color_coords populated, no later source replaces its hdr by
\* one without coordinates, and the record Metadata::parse returns has them.
C28_CoordsKept ==
    [][HasCoords(data) =>
          /\ HasCoords(data')
          /\ result'.kind = "Ok" => HasCoords(result'.val)]_vars

\* source A gave coordinates without a basic section, source B an hdr section
\* without coordinates, source C nothing: the returned record has no coordinates
C28_Witness ==
    /\ calls = <<"A", "B", "C">>
    /\ aOut.kind = "Ok" /\ is_none(aOut.val.basic) /\ HasCoords(aOut.val)
    /\ bOut.kind = "Ok" /\ is_some(bOut.val.hdr) /\ ~HasCoords(bOut.val)
    /\ cOut = Ok(None)
    /\ pc = "done" /\ result.kind = "Ok" /\ ~HasCoords(result.val)

(***************************************************************************)
(* Claims about the records the serializers are given (SpecOut).           *)
(***************************************************************************)
\* the formats of Metadata::print
PrintFormats == {None, Some("x265"), Some("svt-av1"), Some("rav1e"), Some("mkvmerge")}

\* every code of the basic section has a token in the dictionaries of the format
CodesSupported(format, self) ==
    is_some(self.basic) =>
        CASE format = None -> human_readable_basic(self.basic.val).end.kind = "Ok"
          [] format = Some("x265") -> x265_basic_args(self.basic.val).kind = "Ok"
          [] format = Some("rav1e") -> rav1e_basic_args(self.basic.val).kind = "Ok"
          [] OTHER -> TRUE

\* C29: every record that Metadata::parse can return, in particular one whose
\* hdr is present while hdr.color_coords is absent, is accepted by each output
\* serializer (human-readable, mkvmerge, x265, svt-av1, rav1e) without aborting
\* the process, provided its codes are supported by the dialect.
C29_SerializersAccept ==
    \A format \in PrintFormats :
        (printed = Printed(format) /\ CodesSupported(format, result.val))
            => exit = Running

\* the human-readable and mkvmerge serializers accept every such record
C29_ReportAndMkvmergeAccept ==
    \A format \in {None, Some("mkvmerge")} :
        (printed = Printed(format) /\ CodesSupported(format, result.val))
            => exit = Running

\* the x265, svt-av1 and rav1e serializers accept the records whose hdr section,
\* if any, has coordinates and a max_luma whose product by 10000 is a u32
C29_EncodersAcceptWithCoords ==
    \A format \in {Some("x265"), Some("svt-av1"), Some("rav1e")} :
        (printed = Printed(format) /\ CodesSupported(format, result.val)
            /\ (is_some(result.val.hdr) => is_some(result.val.hdr.val.color_coords))
            /\ MaxLumaScales(result.val))
            => exit = Running

\* the svt-av1 serializer was given an hdr section without coordinates: the
\* unwrap ended the process and nothing was printed
C29_Witness ==
    /\ PrintedAs("svt-av1")
    /\ is_some(result.val.hdr) /\ is_none(result.val.hdr.val.color_coords)
    /\ stdout = <<>> /\ exit = Panicked
    /\ stderr = <<panic_line("called Option::unwrap() on a None value")>>

(***************************************************************************)
(* Claims about the arithmetic of the mastering-display string (SpecOut).  *)
(***************************************************************************)
\* the x265 or rav1e serializer of the core crate ran on a record whose hdr
\* section has coordinates and whose codes are in its dictionaries
FormattedMasterDisplay ==
    /\ printed \in {Printed(Some("x265")), Printed(Some("rav1e"))}
    /\ HasCoords(result.val)
    /\ CodesSupported(printed.format, result.val)

\* the L field of the printed line holds max_luma x 10000
ExactLuma ==
    /\ exit = Running
    /\ contains(PrintedText,
                ")L(" \o TimesTenThousand(result.val.hdr.val.max_luma) \o ",")

\* C30: for every 32-bit max_luma the L field of the mastering-display string
\* carries exactly max_luma x 10000: the multiplication in u32 never overflows
\* or wraps.
C30_ExactProduct == FormattedMasterDisplay => ExactLuma

\* it does for every max_luma up to u32::MAX / 10000
C30_ExactProductInRange ==
    (FormattedMasterDisplay /\ MaxLumaScales(result.val)) => ExactLuma

\* a build without overflow checks printed the product of 429497 by 10000
\* reduced modulo 2^32
C30_Witness ==
    /\ FormattedMasterDisplay
    /\ result.val.hdr.val.max_luma = 429497
    /\ exit = Running
    /\ ends_with(PrintedText, ")L(2704,50)")

\* a build with overflow checks panicked on the same record
C30_Overflowed ==
    /\ FormattedMasterDisplay
    /\ result.val.hdr.val.max_luma = 429497
    /\ stdout = <<>> /\ exit = Panicked
    /\ stderr = <<panic_line("attempt to multiply with overflow")>>

\* the largest max_luma below the overflow is printed exactly
C30_LargestExact ==
    /\ FormattedMasterDisplay
    /\ result.val.hdr.val.max_luma = 429496
    /\ exit = Running
    /\ ends_with(PrintedText, ")L(4294960000,50)")
====
